---- MODULE Spec2Model ----
(***************************************************************************)
(* A model of the PocketMine IDE PHP indexer (src/src/main.js): the lexer  *)
(* (tokenize), the declaration parser (parseTokens and the parse*          *)
(* methods), the symbol table, the inheritance resolver and the batched,   *)
(* cooperative indexing run (indexPhpFiles).                               *)
(*                                                                         *)
(* JavaScript strings are TLA+ strings; indices are 0-based as in the      *)
(* source, and CharAt/Substr translate them.  A JavaScript Map is a        *)
(* sequence of [k, v] entries in insertion order; a JavaScript Set that is *)
(* only ever queried with has() is a TLA+ set.                             *)
(***************************************************************************)
EXTENDS Integers, Sequences, FiniteSets, TLC

VARIABLES
    \* ---- lexer run (one call of tokenize, one scan-loop iteration per step)
    lexInput,       \* the argument of tokenize
    lexContent,     \* local `content` (after the byte-order-mark strip)
    lexPos,         \* local `i`
    lexLine,        \* local `line`
    lexColumn,      \* local `column`
    lexTokens,      \* local `tokens`
    lexOut,         \* history: token literals and skipped whitespace, in scan order
    lexPc           \* "start" | "scan" | "done"

VARIABLES
    \* ---- the PhpIndexer object (constructor, lines 744-766)
    classes,            \* this.classes: full name -> class object
    functions,          \* this.functions
    namespaces,         \* this.namespaces: namespace -> set of full class names
    fileIndex,          \* this.fileIndex: normalized path -> file record
    currentFile,        \* this.currentFile
    currentNamespace,   \* this.currentNamespace
    currentClass,       \* this.currentClass (the key of the object, or None)
    lastDocComment,     \* this.lastDocComment
    totalFiles,         \* this.totalFiles
    onProgress,         \* this.onProgress: TRUE once a callback is set
    processedFiles,     \* this.processedFiles
    \* ---- the calls of indexPhpFiles and their environment
    runs,               \* per call: its position, locals and history
    nRuns,              \* calls of indexPhpFiles started so far
    nClears,            \* confirmed "clear index" commands so far
    nIoFailures,        \* rejected lsDir / readFile calls so far
    fsId,               \* which directory tree the PocketMine path holds
    finalTable          \* history: the symbol table each call left when it returned

VARIABLES
    \* ---- the completion cache and the calls observed one step at a time
    done,               \* this.done: the names the running query has already added
    parseRun,           \* one call of parseTokens, one loop iteration per step
    queryOut,           \* the last completion query and the list it returned
    resolveRun          \* one call of resolveClassName and what it returned

lexVars == <<lexInput, lexContent, lexPos, lexLine, lexColumn, lexTokens, lexOut, lexPc>>

tableVars == <<classes, functions, namespaces, fileIndex>>
parserVars == <<currentFile, currentNamespace, currentClass, lastDocComment>>
progressVars == <<totalFiles, processedFiles, onProgress>>
envVars == <<nClears, nIoFailures, fsId>>
stepVars == <<parseRun, queryOut, resolveRun>>

vars == <<lexVars, tableVars, parserVars, progressVars, runs, nRuns, envVars, finalTable,
          done, stepVars>>

Min(a, b) == IF a < b THEN a ELSE b

(***************************************************************************)
(* JavaScript string primitives.                                           *)
(***************************************************************************)
\* s[i]; undefined (out of range) is the empty string, which equals no character
CharAt(s, i) == IF i >= 0 /\ i < Len(s) THEN SubSeq(s, i + 1, i + 1) ELSE ""

\* s.substr(i, n)
Substr(s, i, n) == IF i >= Len(s) THEN "" ELSE SubSeq(s, i + 1, Min(i + n, Len(s)))

\* s.substring(a, b) for 0 <= a <= b
Substring(s, a, b) == IF a >= Min(b, Len(s)) THEN "" ELSE SubSeq(s, a + 1, Min(b, Len(s)))

\* the byte-order mark U+FEFF, written ~ in the model's alphabet
BOM == "~"

UpperLetters == "ABCDEFGHIJKLMNOPQRSTUVWXYZ"
LowerLetters == "abcdefghijklmnopqrstuvwxyz"
Digits == "0123456789"

CharsOf(s) == { SubSeq(s, k, k) : k \in 1..Len(s) }

UpperSet == CharsOf(UpperLetters)
LetterSet == UpperSet \cup CharsOf(LowerLetters)
DigitSet == CharsOf(Digits)

\* /\s/ : U+FEFF is a whitespace character of JavaScript regular expressions
IsSpace(c) == c \in {" ", "\t", "\n", "\r", "\f", BOM}
\* /[a-zA-Z_]/
IsIdentStart(c) == c \in LetterSet \cup {"_"}
\* /[a-zA-Z0-9_]/
IsWordChar(c) == c \in LetterSet \cup DigitSet \cup {"_"}
\* /[a-zA-Z0-9_\\]/
IsIdentChar(c) == c \in LetterSet \cup DigitSet \cup {"_", "\\"}

LowerChar(c) ==
    IF c \in UpperSet
    THEN LET k == CHOOSE k \in 1..Len(UpperLetters) : SubSeq(UpperLetters, k, k) = c
         IN SubSeq(LowerLetters, k, k)
    ELSE c

RECURSIVE ToLowerCase(_)
ToLowerCase(s) == IF s = "" THEN "" ELSE LowerChar(Head(s)) \o ToLowerCase(Tail(s))

(***************************************************************************)
(* Lexer: tokenize (src/src/main.js 931-1108).                             *)
(***************************************************************************)
Token(type, value, line, column) ==
    [type |-> type, value |-> value, line |-> line, column |-> column]

\* the keyword switch on the lower-cased identifier
KeywordType(lowerValue) ==
    CASE lowerValue = "namespace"  -> "T_NAMESPACE"
      [] lowerValue = "use"        -> "T_USE"
      [] lowerValue = "class"      -> "T_CLASS"
      [] lowerValue = "interface"  -> "T_INTERFACE"
      [] lowerValue = "trait"      -> "T_TRAIT"
      [] lowerValue = "function"   -> "T_FUNCTION"
      [] lowerValue = "const"      -> "T_CONST"
      [] lowerValue = "public"     -> "T_PUBLIC"
      [] lowerValue = "protected"  -> "T_PROTECTED"
      [] lowerValue = "private"    -> "T_PRIVATE"
      [] lowerValue = "static"     -> "T_STATIC"
      [] lowerValue = "abstract"   -> "T_ABSTRACT"
      [] lowerValue = "final"      -> "T_FINAL"
      [] lowerValue = "extends"    -> "T_EXTENDS"
      [] lowerValue = "implements" -> "T_IMPLEMENTS"
      [] OTHER                     -> "T_STRING"

\* while (i < content.length && content[i] !== '\n') i++
RECURSIVE ScanLineComment(_, _)
ScanLineComment(content, i) ==
    IF i < Len(content) /\ CharAt(content, i) # "\n"
    THEN ScanLineComment(content, i + 1)
    ELSE i

\* the block-comment loop: stops after the closing */ or one short of the end
RECURSIVE ScanBlockComment(_, _, _, _)
ScanBlockComment(content, i, line, column) ==
    IF i < Len(content) - 1
    THEN IF Substr(content, i, 2) = "*/"
         THEN [i |-> i + 2, line |-> line, column |-> column]
         ELSE IF CharAt(content, i) = "\n"
              THEN ScanBlockComment(content, i + 1, line + 1, 1)
              ELSE ScanBlockComment(content, i + 1, line, column)
    ELSE [i |-> i, line |-> line, column |-> column]

\* the string loop: stops after a closing quote not preceded by a backslash
RECURSIVE ScanString(_, _, _)
ScanString(content, i, quote) ==
    IF i < Len(content)
    THEN IF CharAt(content, i) = quote /\ CharAt(content, i - 1) # "\\"
         THEN i + 1
         ELSE ScanString(content, i + 1, quote)
    ELSE i

RECURSIVE ScanVariable(_, _)
ScanVariable(content, i) ==
    IF i < Len(content) /\ IsWordChar(CharAt(content, i))
    THEN ScanVariable(content, i + 1)
    ELSE i

RECURSIVE ScanIdentifier(_, _)
ScanIdentifier(content, i) ==
    IF i < Len(content) /\ IsIdentChar(CharAt(content, i))
    THEN ScanIdentifier(content, i + 1)
    ELSE i

\* the single-character fallback without its i++
ScanCharStuck(content, i, line, column) ==
    [i |-> i, line |-> line, column |-> column,
     tokens |-> << Token("CHAR", CharAt(content, i), line, column) >>]

\* the single-character fallback at the end of the scan loop
ScanChar(content, i, line, column) ==
    [i |-> i + 1, line |-> line, column |-> column,
     tokens |-> << Token("CHAR", CharAt(content, i), line, column) >>]

\* the block comment branch with the token text taken from after the opener
ScanCommentDropOpener(content, i, line, column) ==
    LET isDocComment == Substr(content, i, 3) = "/**"
        r == ScanBlockComment(content, i + 2, line, column)
    IN [i |-> r.i, line |-> r.line, column |-> r.column,
        tokens |-> << Token(IF isDocComment THEN "T_DOC_COMMENT" ELSE "T_COMMENT",
                            Substring(content, i + 2, r.i), r.line, r.column) >>]

\* the unterminated/terminated block comment branch
ScanComment(content, i, line, column) ==
    LET isDocComment == Substr(content, i, 3) = "/**"
        r == ScanBlockComment(content, i + 2, line, column)
    IN [i |-> r.i, line |-> r.line, column |-> r.column,
        tokens |-> << Token(IF isDocComment THEN "T_DOC_COMMENT" ELSE "T_COMMENT",
                            Substring(content, i, r.i), r.line, r.column) >>]

\* one iteration of `while (i < content.length)`: the new i, line, column and
\* the tokens pushed (none for whitespace, else one)
ScanStep(content, i, line0, column0) ==
    LET char == CharAt(content, i)
        line == IF char = "\n" THEN line0 + 1 ELSE line0
        column == IF char = "\n" THEN 1 ELSE column0 + 1
    IN IF IsSpace(char)
       THEN [i |-> i + 1, line |-> line, column |-> column, tokens |-> << >>]
       ELSE IF Substr(content, i, 5) = "<?php"
       THEN [i |-> i + 5, line |-> line, column |-> column,
             tokens |-> << Token("T_OPEN_TAG", "<?php", line, column) >>]
       ELSE IF Substr(content, i, 2) = "//" \/ Substr(content, i, 1) = "#"
       THEN LET e == ScanLineComment(content, i)
            IN [i |-> e, line |-> line, column |-> column,
                tokens |-> << Token("T_COMMENT", Substring(content, i, e), line, column) >>]
       ELSE IF Substr(content, i, 2) = "/*"
       THEN ScanComment(content, i, line, column)
       ELSE IF char = "\"" \/ char = "'"
       THEN LET e == ScanString(content, i + 1, char)
            IN [i |-> e, line |-> line, column |-> column,
                tokens |-> << Token("T_STRING", Substring(content, i, e), line, column) >>]
       ELSE IF char = "$"
       THEN LET e == ScanVariable(content, i + 1)
            IN [i |-> e, line |-> line, column |-> column,
                tokens |-> << Token("T_VARIABLE", Substring(content, i, e), line, column) >>]
       ELSE IF IsIdentStart(char)
       THEN LET e == ScanIdentifier(content, i)
                value == Substring(content, i, e)
            IN [i |-> e, line |-> line, column |-> column,
                tokens |-> << Token(KeywordType(ToLowerCase(value)), value, line, column) >>]
       ELSE ScanChar(content, i, line, column)

\* if (content.charCodeAt(0) === 0xFEFF) content = content.slice(1)
StripBOM(content) == IF CharAt(content, 0) = BOM THEN Tail(content) ELSE content

RECURSIVE TokenizeFrom(_, _, _, _, _)
TokenizeFrom(content, i, line, column, tokens) ==
    IF i < Len(content)
    THEN LET r == ScanStep(content, i, line, column)
         IN TokenizeFrom(content, r.i, r.line, r.column, tokens \o r.tokens)
    ELSE tokens

tokenize(content) == TokenizeFrom(StripBOM(content), 0, 1, 1, << >>)

(***************************************************************************)
(* More JavaScript primitives: optional values, Map, trim, split.          *)
(***************************************************************************)
\* null / undefined is the empty tuple, a present value v is <<v>>
None == << >>
Some(v) == << v >>

\* Map.has / Map.get / Map.set: a Map is a sequence of [k, v] in insertion order;
\* set() on an existing key keeps the key's position
MapHas(m, k) == \E j \in 1..Len(m) : m[j].k = k
MapGet(m, k) == m[CHOOSE j \in 1..Len(m) : m[j].k = k].v
MapSet(m, k, v) ==
    IF MapHas(m, k)
    THEN [m EXCEPT ![CHOOSE j \in 1..Len(m) : m[j].k = k] = [k |-> k, v |-> v]]
    ELSE Append(m, [k |-> k, v |-> v])
MapKeys(m) == { m[j].k : j \in 1..Len(m) }

StartsWith(s, p) == Substr(s, 0, Len(p)) = p

RECURSIVE TrimStart(_)
TrimStart(s) == IF s # "" /\ IsSpace(Head(s)) THEN TrimStart(Tail(s)) ELSE s

RECURSIVE TrimEnd(_)
TrimEnd(s) ==
    IF s # "" /\ IsSpace(CharAt(s, Len(s) - 1))
    THEN TrimEnd(Substring(s, 0, Len(s) - 1))
    ELSE s

\* String.prototype.trim
Trim(s) == TrimEnd(TrimStart(s))

\* s.split(c) for a one-character separator
RECURSIVE SplitFrom(_, _, _, _)
SplitFrom(s, c, i, start) ==
    IF i >= Len(s) THEN << Substring(s, start, Len(s)) >>
    ELSE IF CharAt(s, i) = c
         THEN << Substring(s, start, i) >> \o SplitFrom(s, c, i + 1, i + 1)
         ELSE SplitFrom(s, c, i + 1, start)

Split(s, c) == SplitFrom(s, c, 0, 0)

\* the end of the whitespace run that starts at i
RECURSIVE SkipSpaces(_, _)
SkipSpaces(s, i) == IF i < Len(s) /\ IsSpace(CharAt(s, i)) THEN SkipSpaces(s, i + 1) ELSE i

\* s.split(/\s+/)
RECURSIVE SplitSpacesFrom(_, _, _)
SplitSpacesFrom(s, i, start) ==
    IF i >= Len(s) THEN << Substring(s, start, Len(s)) >>
    ELSE IF IsSpace(CharAt(s, i))
         THEN LET e == SkipSpaces(s, i)
              IN << Substring(s, start, i) >> \o SplitSpacesFrom(s, e, e)
         ELSE SplitSpacesFrom(s, i + 1, start)

SplitSpaces(s) == SplitSpacesFrom(s, 0, 0)

\* s.replace(/^\(+/, '')
RECURSIVE StripLeadingParens(_)
StripLeadingParens(s) == IF s # "" /\ Head(s) = "(" THEN StripLeadingParens(Tail(s)) ELSE s

\* s.replace(/\)+$/, '')
RECURSIVE StripTrailingParens(_)
StripTrailingParens(s) ==
    IF s # "" /\ CharAt(s, Len(s) - 1) = ")"
    THEN StripTrailingParens(Substring(s, 0, Len(s) - 1))
    ELSE s

\* array.join(sep) of strings
RECURSIVE Join(_, _)
Join(parts, sep) ==
    IF Len(parts) = 0 THEN ""
    ELSE IF Len(parts) = 1 THEN parts[1]
    ELSE parts[1] \o sep \o Join(Tail(parts), sep)

Last(seq) == seq[Len(seq)]

(***************************************************************************)
(* parseDocComment (1678-1727) and parseParameter (1621-1671).             *)
(***************************************************************************)
\* .replace(/^\/\*\*/, '')
StripDocOpen(s) == IF StartsWith(s, "/**") THEN Substring(s, 3, Len(s)) ELSE s

\* .replace(/\*\/$/, '')
StripDocClose(s) ==
    IF Len(s) >= 2 /\ Substr(s, Len(s) - 2, 2) = "*/" THEN Substring(s, 0, Len(s) - 2) ELSE s

\* line.replace(/^\s*\*\s?/, '').trim()
StripLineStar(line) ==
    LET j == SkipSpaces(line, 0)
    IN Trim(IF CharAt(line, j) = "*"
            THEN IF IsSpace(CharAt(line, j + 1))
                 THEN Substring(line, j + 2, Len(line))
                 ELSE Substring(line, j + 1, Len(line))
            ELSE line)

RECURSIVE DocLinesOf(_)
DocLinesOf(raw) ==
    IF Len(raw) = 0 THEN << >>
    ELSE LET l == StripLineStar(raw[1])
         IN (IF Len(l) > 0 THEN << l >> ELSE << >>) \o DocLinesOf(Tail(raw))

DocLines(docComment) == DocLinesOf(Split(StripDocClose(StripDocOpen(docComment)), "\n"))

\* line.match(/^@(\w+)(?:\s+(.*))?$/) for a trimmed line starting with @
TagMatch(line) ==
    LET e == ScanVariable(line, 1)
    IN IF e = 1 THEN None
       ELSE IF e >= Len(line) THEN Some([name |-> Substring(line, 1, e), value |-> ""])
       ELSE IF IsSpace(CharAt(line, e))
            THEN LET rest == Substring(line, SkipSpaces(line, e), Len(line))
                 IN IF "\r" \in CharsOf(rest) THEN None
                    ELSE Some([name |-> Substring(line, 1, e), value |-> rest])
            ELSE None

\* lines 1699-1706: the tag line matched as m
TagLine(doc, m) ==
    IF m = None THEN doc
    ELSE [doc EXCEPT !.tags = MapSet(@, m[1].name,
                                Append(IF MapHas(doc.tags, m[1].name)
                                       THEN MapGet(doc.tags, m[1].name) ELSE << >>,
                                       m[1].value)),
                     !.currentTag = Some(m[1].name),
                     !.currentSection = "tags"]

DocLine(doc, line) ==
    IF StartsWith(line, "@")
    THEN TagLine(doc, TagMatch(line))
    ELSE IF doc.currentSection = "summary" /\ doc.summary = ""
    THEN [doc EXCEPT !.summary = line, !.currentSection = "description"]
    ELSE IF doc.currentSection = "description"
    THEN [doc EXCEPT !.description = (IF @ # "" THEN @ \o "\n" ELSE "") \o line]
    ELSE IF doc.currentSection = "tags" /\ doc.currentTag # None
    THEN LET vals == MapGet(doc.tags, doc.currentTag[1])
         IN IF Len(vals) > 0
            THEN [doc EXCEPT !.tags = MapSet(@, doc.currentTag[1],
                        [vals EXCEPT ![Len(vals)] = @ \o "\n" \o line])]
            ELSE doc
    ELSE doc

RECURSIVE DocFold(_, _)
DocFold(doc, lines) ==
    IF Len(lines) = 0 THEN doc ELSE DocFold(DocLine(doc, lines[1]), Tail(lines))

\* the doc object without its tags map
DocResultNoTags(d) == [summary |-> d.summary, description |-> d.description]

\* line 1726: the fields returned
DocResult(d) == [summary |-> d.summary, description |-> d.description, tags |-> d.tags]

parseDocComment(docComment) ==
    DocResult(DocFold([summary |-> "", description |-> "", tags |-> << >>,
                       currentSection |-> "summary", currentTag |-> None],
                      DocLines(docComment)))

\* lines 1654-1668: the type and the name from the words of the main part
ParameterOf(isReference, isVariadic, parts, toks, name0) ==
    [name |-> IF StartsWith(name0, "$") THEN Substring(name0, 1, Len(name0)) ELSE name0,
     type |-> IF Len(toks) >= 2 THEN Some(toks[1]) ELSE None,
     defaultValue |-> IF Len(parts) > 1 THEN Some(Trim(parts[2])) ELSE None,
     isReference |-> isReference,
     isVariadic |-> isVariadic]

ParameterWords(isReference, isVariadic, parts, toks) ==
    ParameterOf(isReference, isVariadic, parts, toks, Last(toks))

\* lines 1646-1651: split at = into the main part and the default value
ParameterParts(isReference, isVariadic, parts) ==
    ParameterWords(isReference, isVariadic, parts, SplitSpaces(Trim(parts[1])))

\* lines 1640-1643: a leading ... is stripped
ParameterVariadic(isReference, p1) ==
    ParameterParts(isReference, StartsWith(p1, "..."),
        Split(IF StartsWith(p1, "...") THEN Trim(Substring(p1, 3, Len(p1))) ELSE p1, "="))

\* lines 1634-1637: a leading & is stripped
ParameterReference(p0) ==
    ParameterVariadic(StartsWith(p0, "&"),
        IF StartsWith(p0, "&") THEN Trim(Substring(p0, 1, Len(p0))) ELSE p0)

parseParameter(paramStr0) == ParameterReference(Trim(paramStr0))

(***************************************************************************)
(* Declaration parser.  `st` is the indexer state the parse reads and      *)
(* writes: classes, functions, namespaces, fileData (the file's entry of   *)
(* fileIndex), currentFile, currentNamespace, currentClass (the key of the *)
(* class object in classes), lastDocComment.                               *)
(***************************************************************************)
T(tokens, i) == tokens[i + 1]

\* while (i < tokens.length && tokens[i].type in types) i++
RECURSIVE SkipTypes(_, _, _)
SkipTypes(tokens, i, types) ==
    IF i < Len(tokens) /\ T(tokens, i).type \in types
    THEN SkipTypes(tokens, i + 1, types)
    ELSE i

\* while (i < tokens.length && tokens[i].value not in values) i++
RECURSIVE SkipUntilValue(_, _, _)
SkipUntilValue(tokens, i, values) ==
    IF i < Len(tokens) /\ T(tokens, i).value \notin values
    THEN SkipUntilValue(tokens, i + 1, values)
    ELSE i

\* while (...) { val += tokens[i].value; i++ }
RECURSIVE CollectUntilValue(_, _, _, _)
CollectUntilValue(tokens, i, values, val) ==
    IF i < Len(tokens) /\ T(tokens, i).value \notin values
    THEN CollectUntilValue(tokens, i + 1, values, val \o T(tokens, i).value)
    ELSE [i |-> i, val |-> val]

\* the name loop of parseNamespace
RECURSIVE NamespaceName(_, _, _)
NamespaceName(tokens, i, name) ==
    IF i < Len(tokens) /\ (T(tokens, i).type = "T_STRING" \/ T(tokens, i).value = "\\")
    THEN NamespaceName(tokens, i + 1, name \o T(tokens, i).value)
    ELSE [i |-> i, name |-> name]

\* lines 1176-1184: set the current namespace
NamespaceDeclared(st, r) ==
    [i |-> r.i,
     st |-> IF r.name # ""
            THEN [st EXCEPT !.currentNamespace = r.name,
                            !.fileData.namespace = r.name,
                            !.namespaces = IF MapHas(@, r.name) THEN @
                                           ELSE MapSet(@, r.name, {})]
            ELSE st]

\* parseNamespace without the step over its keyword
parseNamespaceStuck(tokens, start, st) == [i |-> start, st |-> st]

parseNamespace(tokens, start, st) ==
    NamespaceDeclared(st,
        NamespaceName(tokens, SkipTypes(tokens, start + 1, {"T_WHITESPACE"}), ""))

\* the statement loop of parseUse
RECURSIVE UseLoop(_, _, _, _, _)
UseLoop(tokens, i, useName, alias, inAlias) ==
    IF i < Len(tokens) /\ T(tokens, i).value # ";"
    THEN IF ToLowerCase(T(tokens, i).value) = "as"
         THEN UseLoop(tokens, i + 1, useName, alias, TRUE)
         ELSE IF T(tokens, i).type = "T_STRING" \/ T(tokens, i).value = "\\"
              THEN IF inAlias
                   THEN UseLoop(tokens, i + 1, useName, alias \o T(tokens, i).value, inAlias)
                   ELSE UseLoop(tokens, i + 1, useName \o T(tokens, i).value, alias, inAlias)
              ELSE UseLoop(tokens, i + 1, useName, alias, inAlias)
    ELSE [i |-> i, useName |-> useName, alias |-> alias]

\* lines 1226-1229: record the import under its alias
UseDeclared(st, r) ==
    [i |-> r.i,
     st |-> IF r.useName # ""
            THEN [st EXCEPT !.fileData.uses =
                      MapSet(@, IF r.alias # "" THEN r.alias ELSE Last(Split(r.useName, "\\")),
                             r.useName)]
            ELSE st]

parseUse(tokens, start, st) ==
    UseDeclared(st, UseLoop(tokens, SkipTypes(tokens, start + 1, {"T_WHITESPACE"}), "", "", FALSE))

\* the token is whitespace or a comment for parseProperty/parseFunction
IsIgnorable(tk) ==
    \/ tk.type \in {"T_WHITESPACE", "T_COMMENT", "T_DOC_COMMENT"}
    \/ (tk.type = "CHAR" /\ IsSpace(tk.value))

RECURSIVE SkipIgnorable(_, _)
SkipIgnorable(tokens, i) ==
    IF i < Len(tokens) /\ IsIgnorable(T(tokens, i)) THEN SkipIgnorable(tokens, i + 1) ELSE i

\* the object the parser calls this.currentClass
CurrentClass(st) == MapGet(st.classes, st.currentClass[1])

\* this.currentClass.<field>.set(name, def)
SetMember(st, field, name, def) ==
    LET key == st.currentClass[1]
        cls == MapGet(st.classes, key)
    IN [st EXCEPT !.classes = MapSet(@, key, [cls EXCEPT ![field] = MapSet(@, name, def)])]

\* the member parsers returning without `this.lastDocComment = null`
ClearDocKeeps(st) == st

\* this.lastDocComment = null: lines 1412, 1474, 1612
ClearDoc(st) == [st EXCEPT !.lastDocComment = None]

(***************************************************************************)
(* parseProperty (1362-1476).                                              *)
(***************************************************************************)
\* the modifier loop, lines 1367-1379
RECURSIVE PropertyModifiers(_, _, _)
PropertyModifiers(tokens, i, mods) ==
    IF i < Len(tokens)
    THEN LET t == T(tokens, i)
         IN IF t.type = "T_PUBLIC" THEN PropertyModifiers(tokens, i + 1, mods \cup {"public"})
            ELSE IF t.type = "T_PROTECTED" THEN PropertyModifiers(tokens, i + 1, mods \cup {"protected"})
            ELSE IF t.type = "T_PRIVATE" THEN PropertyModifiers(tokens, i + 1, mods \cup {"private"})
            ELSE IF t.type = "T_STATIC" THEN PropertyModifiers(tokens, i + 1, mods \cup {"static"})
            ELSE IF t.type = "T_CONST" THEN [i |-> i + 1, modifiers |-> mods \cup {"const"}]
            ELSE IF IsIgnorable(t) THEN PropertyModifiers(tokens, i + 1, mods)
            ELSE [i |-> i, modifiers |-> mods]
    ELSE [i |-> i, modifiers |-> mods]

\* lines 1382-1384
DefaultPropertyVisibility(mods) ==
    IF mods \cap {"public", "protected", "private", "const"} = {}
    THEN mods \cup {"public"}
    ELSE mods

\* lines 1400-1413: store the constant whose value text was collected as c
ConstStored(tokens, start, mods, st, constName, c) ==
    [i |-> IF c.i < Len(tokens) /\ T(tokens, c.i).value = ";" THEN c.i + 1 ELSE c.i,
     st |-> ClearDoc(IF st.currentClass # None
                     THEN SetMember(st, "constants", constName,
                              [name |-> constName, value |-> Trim(c.val), modifiers |-> mods,
                               file |-> st.currentFile, line |-> T(tokens, start).line,
                               docComment |-> st.lastDocComment])
                     ELSE st)]

\* lines 1395-1399: from the token after the name, found at i1 by the skip to =
ConstValue(tokens, start, mods, st, constName, i1) ==
    ConstStored(tokens, start, mods, st, constName,
        CollectUntilValue(tokens,
            IF i1 < Len(tokens) /\ T(tokens, i1).value = "=" THEN i1 + 1 ELSE i1,
            {";"}, ""))

\* the class-constant branch, lines 1391-1413, entered at the constant's name
ParseConst(tokens, start, i0, mods, st) ==
    ConstValue(tokens, start, mods, st, T(tokens, i0).value,
               SkipUntilValue(tokens, i0 + 1, {"="}))

RECURSIVE PropertyVars(_, _, _, _)

\* lines 1454-1464: after the property is stored, a comma continues with the
\* next variable, a semicolon ends the declaration
PropertyNext(tokens, mods, i, st1) ==
    IF i < Len(tokens) /\ T(tokens, i).value = ","
    THEN PropertyVars(tokens, i + 1, mods, st1)
    ELSE IF i < Len(tokens) /\ T(tokens, i).value = ";"
    THEN [i |-> i + 1, st |-> st1]
    ELSE PropertyVars(tokens, i, mods, st1)

\* lines 1442-1452: store the property; c is the default value's text and end
PropertyStored(tokens, mods, st, varToken, propName, hasDefault, c) ==
    PropertyNext(tokens, mods, c.i,
        IF st.currentClass # None
        THEN SetMember(st, "properties", propName,
                 [name |-> propName, modifiers |-> mods,
                  defaultValue |-> IF hasDefault /\ Trim(c.val) # ""
                                   THEN Some(Trim(c.val)) ELSE None,
                  file |-> st.currentFile,
                  line |-> varToken.line, docComment |-> st.lastDocComment,
                  inherited |-> FALSE])
        ELSE st)

\* lines 1428-1440: the default value, from the first token i2 after the name
PropertyDefault(tokens, mods, st, varToken, i2) ==
    PropertyStored(tokens, mods, st, varToken,
        IF StartsWith(varToken.value, "$")
        THEN Substring(varToken.value, 1, Len(varToken.value))
        ELSE varToken.value,
        i2 < Len(tokens) /\ T(tokens, i2).value = "=",
        IF i2 < Len(tokens) /\ T(tokens, i2).value = "="
        THEN CollectUntilValue(tokens, i2 + 1, {",", ";"}, "")
        ELSE [i |-> i2, val |-> ""])

\* lines 1423-1471: one iteration, at the first token i1 that is not ignorable
PropertyVar(tokens, mods, st, i1) ==
    IF i1 < Len(tokens) /\ T(tokens, i1).type = "T_VARIABLE"
    THEN PropertyDefault(tokens, mods, st, T(tokens, i1),
                         SkipTypes(tokens, i1 + 1, {"T_WHITESPACE", "T_COMMENT"}))
    ELSE LET i2 == SkipUntilValue(tokens, i1, {";"})
         IN [i |-> IF i2 < Len(tokens) /\ T(tokens, i2).value = ";" THEN i2 + 1 ELSE i2,
             st |-> st]

\* the variable loop, lines 1419-1471
PropertyVars(tokens, i0, mods, st) ==
    IF i0 < Len(tokens)
    THEN PropertyVar(tokens, mods, st, SkipTypes(tokens, i0, {"T_WHITESPACE", "T_COMMENT"}))
    ELSE [i |-> i0, st |-> st]

\* lines 1474-1475
PropertyEnd(r) == [i |-> r.i, st |-> ClearDoc(r.st)]

\* lines 1387-1471: ic is the first token after the modifiers that is neither
\* whitespace nor a comment
PropertyBody(tokens, start, st, m, mods, ic) ==
    IF "const" \in mods /\ ic < Len(tokens) /\ T(tokens, ic).type = "T_STRING"
    THEN ParseConst(tokens, start, ic, mods, st)
    ELSE PropertyEnd(PropertyVars(tokens, IF "const" \in mods THEN ic ELSE m.i, mods, st))

PropertyAfterModifiers(tokens, start, st, m) ==
    PropertyBody(tokens, start, st, m, DefaultPropertyVisibility(m.modifiers),
                 SkipTypes(tokens, m.i, {"T_WHITESPACE", "T_COMMENT"}))

parseProperty(tokens, start, st) ==
    PropertyAfterModifiers(tokens, start, st, PropertyModifiers(tokens, start, {}))

(***************************************************************************)
(* parseFunction (1485-1614).                                              *)
(***************************************************************************)
ModifierOf(type) ==
    CASE type = "T_PUBLIC" -> "public"
      [] type = "T_PROTECTED" -> "protected"
      [] type = "T_PRIVATE" -> "private"
      [] type = "T_STATIC" -> "static"
      [] type = "T_ABSTRACT" -> "abstract"
      [] type = "T_FINAL" -> "final"

\* the backward scans of parseClass (1247-1252) and parseFunction (1499-1509):
\* every token before j back to the nearest single-character token
RECURSIVE BackwardModifiers(_, _, _)
BackwardModifiers(tokens, j, types) ==
    IF j >= 0 /\ T(tokens, j).type # "CHAR"
    THEN (IF T(tokens, j).type \in types THEN {ModifierOf(T(tokens, j).type)} ELSE {})
         \cup BackwardModifiers(tokens, j - 1, types)
    ELSE {}

\* lines 1511-1513
DefaultFunctionVisibility(mods) ==
    IF mods \cap {"public", "protected", "private"} = {}
    THEN mods \cup {"public"}
    ELSE mods

\* the parenthesis matching of the anonymous-closure skip, lines 1525-1532
RECURSIVE MatchParens(_, _, _)
MatchParens(tokens, i, depth) ==
    IF i < Len(tokens)
    THEN IF T(tokens, i).value = "("
         THEN MatchParens(tokens, i + 1, depth + 1)
         ELSE IF T(tokens, i).value = ")"
              THEN IF depth - 1 = 0 THEN i + 1 ELSE MatchParens(tokens, i + 1, depth - 1)
              ELSE MatchParens(tokens, i + 1, depth)
    ELSE i

\* lines 1519-1536, entered after the ignorable tokens
SkipClosure(tokens, i0) ==
    LET i1 == SkipUntilValue(tokens, i0, {"("})
    IN IF i1 >= Len(tokens) THEN i1 + 1
       ELSE SkipUntilValue(tokens, MatchParens(tokens, i1, 0), {"{", ";"}) + 1

\* the parameter list loop, lines 1547-1575
RECURSIVE ParamLoop(_, _, _, _, _, _)
ParamLoop(tokens, i, inParams, paramDepth, currentParam, parameters) ==
    IF i < Len(tokens)
    THEN LET v == T(tokens, i).value
         IN IF v = "("
            THEN ParamLoop(tokens, i + 1, TRUE, paramDepth + 1, currentParam \o v, parameters)
            ELSE IF v = ")"
            THEN IF paramDepth - 1 = 0
                 THEN LET trimmed == Trim(StripTrailingParens(StripLeadingParens(currentParam)))
                      IN [i |-> i + 1,
                          parameters |-> IF Trim(currentParam) # "" /\ trimmed # ""
                                         THEN Append(parameters, parseParameter(trimmed))
                                         ELSE parameters]
                 ELSE ParamLoop(tokens, i + 1, inParams, paramDepth - 1, currentParam \o v, parameters)
            ELSE IF inParams /\ v = "," /\ paramDepth = 1
            THEN ParamLoop(tokens, i + 1, inParams, paramDepth, "",
                           IF Trim(currentParam) # ""
                           THEN Append(parameters, parseParameter(Trim(currentParam)))
                           ELSE parameters)
            ELSE IF inParams
            THEN ParamLoop(tokens, i + 1, inParams, paramDepth, currentParam \o v, parameters)
            ELSE ParamLoop(tokens, i + 1, inParams, paramDepth, currentParam, parameters)
    ELSE [i |-> i, parameters |-> parameters]

\* the return type loop, lines 1583-1588
RECURSIVE ReturnTypeLoop(_, _, _)
ReturnTypeLoop(tokens, i, typeTokens) ==
    IF i < Len(tokens)
       /\ (\/ T(tokens, i).type = "T_STRING"
           \/ (T(tokens, i).type = "CHAR" /\ T(tokens, i).value \in {"\\", "?", "|"}))
    THEN ReturnTypeLoop(tokens, i + 1, typeTokens \o T(tokens, i).value)
    ELSE [i |-> i, val |-> typeTokens]

\* lines 1604-1610: into the current class's methods, else the global functions
RegisterFunction(st, functionName, def) ==
    IF st.currentClass # None
    THEN SetMember(st, "methods", functionName, def)
    ELSE LET fullName == IF st.currentNamespace # ""
                         THEN st.currentNamespace \o "\\" \o functionName
                         ELSE functionName
         IN [st EXCEPT !.functions = MapSet(@, fullName, def),
                       !.fileData.functions = MapSet(@, functionName, def)]

\* lines 1592-1613: build the definition, register it, clear the doc comment
FunctionDeclared(tokens, start, st, modifiers, functionName, parameters, rt) ==
    [i |-> rt.i,
     st |-> ClearDoc(RegisterFunction(st, functionName,
                [name |-> functionName,
                 modifiers |-> modifiers,
                 parameters |-> parameters,
                 returnType |-> IF Trim(rt.val) # "" THEN Some(Trim(rt.val)) ELSE None,
                 docComment |-> st.lastDocComment,
                 file |-> st.currentFile,
                 line |-> T(tokens, start).line,
                 isMethod |-> st.currentClass # None,
                 class |-> IF st.currentClass # None
                           THEN Some(CurrentClass(st).name) ELSE None,
                 inherited |-> FALSE]))]

\* lines 1577-1590: the return type, from the first token i1 after the
\* parameter list that is not ignorable
FunctionReturnType(tokens, start, st, modifiers, functionName, parameters, i1) ==
    FunctionDeclared(tokens, start, st, modifiers, functionName, parameters,
        IF i1 < Len(tokens) /\ T(tokens, i1).value = ":"
        THEN ReturnTypeLoop(tokens, i1 + 1, "")
        ELSE [i |-> i1, val |-> ""])

FunctionAfterParams(tokens, start, st, modifiers, functionName, p) ==
    FunctionReturnType(tokens, start, st, modifiers, functionName, p.parameters,
                       SkipIgnorable(tokens, p.i))

\* lines 1515-1575: i0 is the first token after `function` that is not ignorable
FunctionNamed(tokens, start, st, modifiers, i0) ==
    IF i0 >= Len(tokens) \/ T(tokens, i0).type # "T_STRING"
    THEN [i |-> SkipClosure(tokens, i0), st |-> st]
    ELSE FunctionAfterParams(tokens, start, st, modifiers, T(tokens, i0).value,
                             ParamLoop(tokens, i0 + 1, FALSE, 0, "", << >>))

parseFunction(tokens, start, st) ==
    FunctionNamed(tokens, start, st,
        DefaultFunctionVisibility(
            BackwardModifiers(tokens, start - 1,
                {"T_PUBLIC", "T_PROTECTED", "T_PRIVATE", "T_STATIC", "T_ABSTRACT", "T_FINAL"})),
        SkipIgnorable(tokens, start + 1))

(***************************************************************************)
(* parseClass (1241-1360).                                                 *)
(***************************************************************************)
\* the implements loop, lines 1277-1282
RECURSIVE ImplementsLoop(_, _, _)
ImplementsLoop(tokens, i, impl) ==
    IF i < Len(tokens) /\ T(tokens, i).value # "{"
    THEN ImplementsLoop(tokens, i + 1,
             IF T(tokens, i).type = "T_STRING" THEN Append(impl, T(tokens, i).value) ELSE impl)
    ELSE [i |-> i, impl |-> impl]

\* the header loop, lines 1267-1286
RECURSIVE HeaderLoop(_, _, _, _)
HeaderLoop(tokens, i, ext, impl) ==
    IF i < Len(tokens) /\ T(tokens, i).value # "{"
    THEN IF T(tokens, i).type = "T_EXTENDS"
         THEN LET i1 == SkipTypes(tokens, i + 1, {"T_WHITESPACE"})
              IN IF i1 < Len(tokens) /\ T(tokens, i1).type = "T_STRING"
                 THEN HeaderLoop(tokens, i1 + 1, Append(ext, T(tokens, i1).value), impl)
                 ELSE HeaderLoop(tokens, i1, ext, impl)
         ELSE IF T(tokens, i).type = "T_IMPLEMENTS"
         THEN LET r == ImplementsLoop(tokens, i + 1, impl)
              IN HeaderLoop(tokens, r.i, ext, r.impl)
         ELSE HeaderLoop(tokens, i + 1, ext, impl)
    ELSE [i |-> i, extends |-> ext, implements |-> impl]

\* the member dispatch of the class body, lines 1343-1351
DispatchesToProperty(type) ==
    type \in {"T_PUBLIC", "T_PROTECTED", "T_PRIVATE", "T_STATIC", "T_CONST"}

RECURSIVE ClassBody(_, _, _, _)

\* the body loop goes on after the member parser returned r
ClassBodyAfter(tokens, braceDepth, r) == ClassBody(tokens, r.i, braceDepth, r.st)

\* the body loop, lines 1323-1355
ClassBody(tokens, i, braceDepth, st) ==
    IF i < Len(tokens) /\ braceDepth > 0
    THEN LET tk == T(tokens, i)
         IN IF tk.value = "{" THEN ClassBody(tokens, i + 1, braceDepth + 1, st)
            ELSE IF tk.value = "}" THEN ClassBody(tokens, i + 1, braceDepth - 1, st)
            ELSE IF tk.type = "T_DOC_COMMENT"
            THEN ClassBody(tokens, i + 1, braceDepth,
                           [st EXCEPT !.lastDocComment = Some(parseDocComment(tk.value))])
            ELSE IF tk.type = "T_FUNCTION"
            THEN ClassBodyAfter(tokens, braceDepth, parseFunction(tokens, i, st))
            ELSE IF DispatchesToProperty(tk.type)
            THEN ClassBodyAfter(tokens, braceDepth, parseProperty(tokens, i, st))
            ELSE ClassBody(tokens, i + 1, braceDepth, st)
    ELSE [i |-> i, st |-> st]

\* lines 1289-1312: build the class object and register it
RegisterClass(st, tokens, start, className, modifiers, ext, impl) ==
    LET fullClassName == IF st.currentNamespace # ""
                         THEN st.currentNamespace \o "\\" \o className
                         ELSE className
        classDefinition ==
            [name |-> className,
             fullName |-> fullClassName,
             namespace |-> st.currentNamespace,
             type |-> ToLowerCase(T(tokens, start).value),
             modifiers |-> modifiers,
             extends |-> ext,
             implements |-> impl,
             methods |-> << >>,
             properties |-> << >>,
             constants |-> << >>,
             file |-> st.currentFile,
             docComment |-> st.lastDocComment,
             line |-> T(tokens, start).line,
             inheritanceResolved |-> FALSE]
    IN [st EXCEPT !.classes = MapSet(@, fullClassName, classDefinition),
                  !.fileData.classes = MapSet(@, className, fullClassName),
                  !.currentClass = Some(fullClassName),
                  !.namespaces = IF st.currentNamespace # "" /\ MapHas(@, st.currentNamespace)
                                 THEN MapSet(@, st.currentNamespace,
                                             MapGet(@, st.currentNamespace) \cup {fullClassName})
                                 ELSE @,
                  !.lastDocComment = None]

\* lines 1357-1359: the body is over
ClassEnd(b) == [i |-> b.i, st |-> [b.st EXCEPT !.currentClass = None]]

\* lines 1314-1359: the class is registered (st1); the header ended at i
ClassRegistered(tokens, i, st1) ==
    IF i >= Len(tokens) \/ T(tokens, i).value # "{"
    THEN [i |-> i, st |-> st1]
    ELSE ClassEnd(ClassBody(tokens, i + 1, 1, st1))

\* lines 1289-1312, with the header h read
ClassHeader(tokens, start, st, modifiers, className, h) ==
    ClassRegistered(tokens, h.i,
        RegisterClass(st, tokens, start, className, modifiers, h.extends, h.implements))

\* lines 1257-1286: i0 is the first token after the keyword that is neither
\* whitespace nor a comment
ClassNamed(tokens, start, st, modifiers, i0) ==
    IF i0 >= Len(tokens) \/ T(tokens, i0).type # "T_STRING"
    THEN [i |-> i0, st |-> st]
    ELSE ClassHeader(tokens, start, st, modifiers, T(tokens, i0).value,
                     HeaderLoop(tokens, i0 + 1, << >>, << >>))

parseClass(tokens, start, st) ==
    ClassNamed(tokens, start, st,
        BackwardModifiers(tokens, start - 1, {"T_ABSTRACT", "T_FINAL"}),
        SkipTypes(tokens, start + 1, {"T_WHITESPACE", "T_COMMENT", "T_DOC_COMMENT"}))

(***************************************************************************)
(* parseTokens (1115-1151) and processPhpFile (895-924).                   *)
(***************************************************************************)
RECURSIVE ParseLoop(_, _, _)

\* the loop goes on after the declaration parser returned r
ParseLoopAfter(tokens, r) == ParseLoop(tokens, r.i, r.st)

ParseLoop(tokens, i, st) ==
    IF i < Len(tokens)
    THEN LET type == T(tokens, i).type
         IN IF type = "T_NAMESPACE"
            THEN ParseLoopAfter(tokens, parseNamespace(tokens, i, st))
            ELSE IF type = "T_USE"
            THEN ParseLoopAfter(tokens, parseUse(tokens, i, st))
            ELSE IF type \in {"T_CLASS", "T_INTERFACE", "T_TRAIT"}
            THEN ParseLoopAfter(tokens, parseClass(tokens, i, st))
            ELSE IF type = "T_FUNCTION"
            THEN ParseLoopAfter(tokens, parseFunction(tokens, i, st))
            ELSE IF type = "T_DOC_COMMENT"
            THEN ParseLoop(tokens, i + 1,
                     [st EXCEPT !.lastDocComment = Some(parseDocComment(T(tokens, i).value))])
            ELSE ParseLoop(tokens, i + 1, st)
    ELSE st

parseTokens(tokens, st) == ParseLoop(tokens, 0, st)

\* filePath.replace(/\\/g, '/')
RECURSIVE normalizeFilePath(_)
normalizeFilePath(filePath) ==
    IF filePath = "" THEN ""
    ELSE (IF Head(filePath) = "\\" THEN "/" ELSE Head(filePath)) \o normalizeFilePath(Tail(filePath))

\* the file record created at lines 908-915 (lastModified, a timestamp, is left out)
NewFileData(filePath) ==
    [path |-> filePath, namespace |-> "", uses |-> << >>, classes |-> << >>,
     functions |-> << >>]

\* the indexer state once parseTokens has returned st1
FileParsed(fileIndex1, fileKey, st1) ==
    [classes |-> st1.classes,
     functions |-> st1.functions,
     namespaces |-> st1.namespaces,
     fileIndex |-> MapSet(fileIndex1, fileKey, st1.fileData),
     currentFile |-> st1.currentFile,
     currentNamespace |-> st1.currentNamespace,
     currentClass |-> st1.currentClass,
     lastDocComment |-> st1.lastDocComment]

\* the file context without the reset of line 901: the namespace the unit
\* parsed before left in this.currentNamespace is kept
FileContextKeepsNamespace(ix, filePath, content, fileKey, fileIndex1) ==
    FileParsed(fileIndex1, fileKey,
        parseTokens(tokenize(content),
            [classes |-> ix.classes,
             functions |-> ix.functions,
             namespaces |-> ix.namespaces,
             fileData |-> MapGet(fileIndex1, fileKey),
             currentFile |-> filePath,
             currentNamespace |-> currentNamespace,
             currentClass |-> None,
             lastDocComment |-> ix.lastDocComment]))

\* lines 900-919 with the file's record set in fileIndex1
FileContext(ix, filePath, content, fileKey, fileIndex1) ==
    FileParsed(fileIndex1, fileKey,
        parseTokens(tokenize(content),
            [classes |-> ix.classes,
             functions |-> ix.functions,
             namespaces |-> ix.namespaces,
             fileData |-> MapGet(fileIndex1, fileKey),
             currentFile |-> filePath,
             currentNamespace |-> "",
             currentClass |-> None,
             lastDocComment |-> ix.lastDocComment]))

FileKeyed(ix, filePath, content, fileKey) ==
    FileContext(ix, filePath, content, fileKey,
                MapSet(ix.fileIndex, fileKey, NewFileData(filePath)))

\* the synchronous part of processPhpFile that runs once the read has delivered
\* `content`: on indexer state ix, gives the indexer state after the parse
processFileContent(ix, filePath, content) ==
    FileKeyed(ix, filePath, content, normalizeFilePath(filePath))

(***************************************************************************)
(* Inheritance resolver (1732-1807).  A class object is identified by its  *)
(* key in this.classes.                                                    *)
(***************************************************************************)
\* resolveClassName: the key of the class found, or None
\* the lookup with the use statements tried before the current namespace
resolveClassNameAliasFirst(cls, fidx, className, context) ==
    IF MapHas(cls, className) THEN Some(className)
    ELSE LET fileKey == normalizeFilePath(context.file)
         IN IF /\ MapHas(fidx, fileKey)
               /\ MapHas(MapGet(fidx, fileKey).uses, className)
               /\ MapHas(cls, MapGet(MapGet(fidx, fileKey).uses, className))
            THEN Some(MapGet(MapGet(fidx, fileKey).uses, className))
            ELSE IF context.namespace # ""
                    /\ MapHas(cls, context.namespace \o "\\" \o className)
            THEN Some(context.namespace \o "\\" \o className)
            ELSE None

resolveClassName(cls, fidx, className, context) ==
    IF MapHas(cls, className) THEN Some(className)
    ELSE IF context.namespace # ""
            /\ MapHas(cls, context.namespace \o "\\" \o className)
    THEN Some(context.namespace \o "\\" \o className)
    ELSE LET fileKey == normalizeFilePath(context.file)
         IN IF /\ MapHas(fidx, fileKey)
               /\ MapHas(MapGet(fidx, fileKey).uses, className)
               /\ MapHas(cls, MapGet(MapGet(fidx, fileKey).uses, className))
            THEN Some(MapGet(MapGet(fidx, fileKey).uses, className))
            ELSE None

\* the copy condition without its visibility test
InheritableAnyVisibility(childMap, name, data) == ~MapHas(childMap, name)

\* the copy condition without its has() test
InheritableOverOwn(childMap, name, data) ==
    "public" \in data.modifiers \/ "protected" \in data.modifiers

\* the copy condition of lines 1758-1759 and 1766-1767
Inheritable(childMap, name, data) ==
    /\ ~MapHas(childMap, name)
    /\ ("public" \in data.modifiers \/ "protected" \in data.modifiers)

\* the copy loops storing the parent's entry itself, without `inherited: true`
RECURSIVE InheritMembersUntagged(_, _)
InheritMembersUntagged(childMap, parentMap) ==
    IF Len(parentMap) = 0 THEN childMap
    ELSE LET e == Head(parentMap)
         IN InheritMembersUntagged(
                IF Inheritable(childMap, e.k, e.v) THEN MapSet(childMap, e.k, e.v)
                ELSE childMap,
                Tail(parentMap))

\* the loops of lines 1757-1762 and 1765-1770: copy into the child's map
RECURSIVE InheritMembers(_, _)
InheritMembers(childMap, parentMap) ==
    IF Len(parentMap) = 0 THEN childMap
    ELSE LET e == Head(parentMap)
         IN InheritMembers(
                IF Inheritable(childMap, e.k, e.v)
                THEN MapSet(childMap, e.k, [e.v EXCEPT !.inherited = TRUE])
                ELSE childMap,
                Tail(parentMap))

\* resolveInheritance.  `stack` holds the classes whose call is still active:
\* the source keeps no in-progress mark, so a call on a class of the stack
\* recurses without bound and ends in the engine's RangeError (ok = FALSE),
\* which unwinds every active call.
RECURSIVE resolveInheritance(_, _, _, _)
RECURSIVE ResolveParents(_, _, _, _, _)

\* line 1774, unless the parent loop ended in the RangeError
ResolvedMark(key, r) ==
    IF r.ok
    THEN [classes |-> MapSet(r.classes, key,
                          [MapGet(r.classes, key) EXCEPT !.inheritanceResolved = TRUE]),
          ok |-> TRUE]
    ELSE r

resolveInheritance(cls, fidx, key, stack) ==
    IF MapGet(cls, key).inheritanceResolved
    THEN [classes |-> cls, ok |-> TRUE]
    ELSE IF key \in stack
    THEN [classes |-> cls, ok |-> FALSE]
    ELSE ResolvedMark(key, ResolveParents(cls, fidx, key, 1, stack \cup {key}))

\* lines 1756-1770: copy the parent's members; r is the table after the
\* parent's own resolution
ParentResolved(fidx, key, n, stack, parentKey, r) ==
    IF ~r.ok THEN r
    ELSE ResolveParents(
             MapSet(r.classes, key,
                 [MapGet(r.classes, key) EXCEPT
                     !.methods = InheritMembers(@, MapGet(r.classes, parentKey).methods),
                     !.properties = InheritMembers(@, MapGet(r.classes, parentKey).properties)]),
             fidx, key, n + 1, stack)

\* the parent's members copied without resolving the parent first
ParentFoundAsIs(cls, fidx, key, n, stack, parent) ==
    IF parent = None
    THEN ResolveParents(cls, fidx, key, n + 1, stack)
    ELSE ParentResolved(fidx, key, n, stack, parent[1], [classes |-> cls, ok |-> TRUE])

\* lines 1751-1754: the parent found (or not) for the n-th extends entry
ParentFound(cls, fidx, key, n, stack, parent) ==
    IF parent = None
    THEN ResolveParents(cls, fidx, key, n + 1, stack)
    ELSE ParentResolved(fidx, key, n, stack, parent[1],
                        resolveInheritance(cls, fidx, parent[1], stack))

\* the loop over classData.extends, lines 1750-1772
ResolveParents(cls, fidx, key, n, stack) ==
    IF n > Len(MapGet(cls, key).extends)
    THEN [classes |-> cls, ok |-> TRUE]
    ELSE ParentFound(cls, fidx, key, n, stack,
             resolveClassName(cls, fidx, MapGet(cls, key).extends[n], MapGet(cls, key)))

\* postProcessIndex: resolve every class in the iteration order of this.classes;
\* the first RangeError ends the loop (buildCompletionCaches is empty)
RECURSIVE PostProcessFrom(_, _, _)

PostProcessNext(fidx, n, r) ==
    IF r.ok THEN PostProcessFrom(r.classes, fidx, n + 1) ELSE r

PostProcessFrom(cls, fidx, n) ==
    IF n > Len(cls) THEN [classes |-> cls, ok |-> TRUE]
    ELSE PostProcessNext(fidx, n, resolveInheritance(cls, fidx, cls[n].k, {}))

postProcessIndex(cls, fidx) == PostProcessFrom(cls, fidx, 1)

(***************************************************************************)
(* File enumeration: findPhpFiles (837-874), shouldSkipDirectory (881-889).*)
(***************************************************************************)
shouldSkipDirectory(dirName) ==
    \/ dirName \in {"node_modules", ".git", ".svn", ".hg", "vendor", "cache", "tmp",
                    "temp", "logs", "log", "build", "dist", ".idea", ".vscode",
                    "__pycache__"}
    \/ StartsWith(dirName, ".")

EndsWith(s, suffix) ==
    Len(s) >= Len(suffix) /\ Substring(s, Len(s) - Len(suffix), Len(s)) = suffix

\* scanDirectory: `failing` are the directories whose lsDir rejects (a path that
\* is no directory of the tree rejects too); acc is [fileList, visited]
RECURSIVE scanDirectory(_, _, _, _)
RECURSIVE ScanEntries(_, _, _, _, _, _)
\* scanDirectory with a rejected lsDir discarding the files collected so far
scanDirectoryDropsAll(tree, dirPath, failing, acc) ==
    IF dirPath \in acc.visited THEN acc
    ELSE IF dirPath \in failing \/ ~MapHas(tree.dirs, dirPath)
    THEN [fileList |-> << >>, visited |-> acc.visited \cup {dirPath}]
    ELSE ScanEntries(tree, dirPath, MapGet(tree.dirs, dirPath), 1, failing,
                     [acc EXCEPT !.visited = @ \cup {dirPath}])

scanDirectory(tree, dirPath, failing, acc) ==
    IF dirPath \in acc.visited THEN acc
    ELSE LET acc1 == [acc EXCEPT !.visited = @ \cup {dirPath}]
         IN IF dirPath \in failing \/ ~MapHas(tree.dirs, dirPath)
            THEN acc1
            ELSE ScanEntries(tree, dirPath, MapGet(tree.dirs, dirPath), 1, failing, acc1)

ScanEntries(tree, dirPath, entries, n, failing, acc) ==
    IF n > Len(entries) THEN acc
    ELSE LET entry == entries[n]
             fullPath == dirPath \o "/" \o entry.name
         IN IF entry.isDirectory
            THEN ScanEntries(tree, dirPath, entries, n + 1, failing,
                     IF ~shouldSkipDirectory(entry.name)
                     THEN scanDirectory(tree, fullPath, failing, acc)
                     ELSE acc)
            ELSE ScanEntries(tree, dirPath, entries, n + 1, failing,
                     IF EndsWith(entry.name, ".php")
                     THEN [acc EXCEPT !.fileList = Append(@, fullPath)]
                     ELSE acc)

\* every rejection of lsDir is caught inside scanDirectory, the root's included
findPhpFiles(tree, startPath, failing) ==
    scanDirectory(tree, startPath, failing, [fileList |-> << >>, visited |-> {}]).fileList

(***************************************************************************)
(* The directory trees the model indexes.                                  *)
(***************************************************************************)
Root == "/pm"

File(name) == [name |-> name, isDirectory |-> FALSE]
Dir(name) == [name |-> name, isDirectory |-> TRUE]
Entry(k, v) == [k |-> k, v |-> v]

\* the two files of the specification's inheritance example, a text file and a
\* vendor directory
TreeExample ==
    [dirs |-> << Entry("/pm", << File("a.php"), File("b.php"), File("notes.txt"), Dir("vendor") >>),
                 Entry("/pm/vendor", << File("v.php") >>) >>,
     files |-> << Entry("/pm/a.php",
                     "namespace App; class Base { public function foo(){} private function bar(){} }"),
                  Entry("/pm/b.php", "namespace App; class Child extends Base {}"),
                  Entry("/pm/vendor/v.php", "class Vendor {}") >>]

\* a three-level extends chain with an override, in members the parser registers
TreeChain ==
    [dirs |-> << Entry("/pm", << File("base.php"), Dir("src") >>),
                 Entry("/pm/src", << File("child.php") >>) >>,
     files |-> << Entry("/pm/base.php",
                     "namespace App;class Base{public $p;private $q;protected $r;function foo(){}function own(){}}"),
                  Entry("/pm/src/child.php",
                     "namespace App;class Grand extends Child{}class Child extends Base{public $p=2;private $c;function foo(){}}") >>]

\* extends cycles: two classes extending each other, and a class extending itself
TreeCycle ==
    [dirs |-> << Entry("/pm", << File("cyc.php"), File("self.php") >>) >>,
     files |-> << Entry("/pm/cyc.php", "class A extends B {} class B extends A {}"),
                  Entry("/pm/self.php", "class S extends S { public $s; }") >>]

\* a class with a static property and a constant, then a doc comment with no
\* declaration after it
TreeDoc ==
    [dirs |-> << Entry("/pm", << File("d.php"), File("e.php") >>) >>,
     files |-> << Entry("/pm/d.php", "class D { public static $count; const MAX = 1; }\n/** tail */"),
                  Entry("/pm/e.php", "function f(){}") >>]

\* two sibling directories below the root; names that match the prefix `get`
\* exactly, as a prefix and as a substring
TreeNames ==
    [dirs |-> << Entry("/pm", << Dir("one"), Dir("two") >>),
                 Entry("/pm/one", << File("g.php") >>),
                 Entry("/pm/two", << File("h.php") >>) >>,
     files |-> << Entry("/pm/one/g.php", "class xget{}class getX{}class get{}class getA{}"),
                  Entry("/pm/two/h.php", "namespace Get;function getY(){}function get(){}") >>]

Trees == << TreeExample, TreeChain, TreeCycle, TreeDoc, TreeNames >>

\* twelve empty PHP files in the root: more than one batch
ManyNames == << "f01.php", "f02.php", "f03.php", "f04.php", "f05.php", "f06.php",
               "f07.php", "f08.php", "f09.php", "f10.php", "f11.php", "f12.php" >>

TreeMany ==
    [dirs |-> << Entry("/pm", [n \in 1..Len(ManyNames) |-> File(ManyNames[n])]) >>,
     files |-> [n \in 1..Len(ManyNames) |-> Entry("/pm/" \o ManyNames[n], "")]]

AllTrees == Trees \o << TreeMany >>

Tree == AllTrees[fsId]

\* the directories lsDir is called on when nothing fails: the root and every
\* directory below it that no shouldSkipDirectory test on the way excludes
ListedDirs(tree) ==
    { d \in MapKeys(tree.dirs) :
        \/ d = Root
        \/ /\ StartsWith(d, Root \o "/")
           /\ LET parts == Split(Substr(d, Len(Root) + 1, Len(d)), "/")
              IN \A n \in 1..Len(parts) : ~shouldSkipDirectory(parts[n]) }

(***************************************************************************)
(* The indexing run: indexPhpFiles (780-816), clearIndex (821-830), and    *)
(* the plugin's callers (432-447, 643-673).                                *)
(***************************************************************************)
batchSize == 10

MaxRuns == 2
MaxClears == 1
MaxIoFailures == 1

RunIds == 1..MaxRuns

IdleRun ==
    [pc |-> "idle", files |-> << >>, i |-> 0, pending |-> {},
     log |-> << >>, rootFailed |-> FALSE, readFailed |-> FALSE, overlap |-> FALSE,
     cleared |-> FALSE, failing |-> {}, failed |-> {}, postProcessed |-> FALSE,
     clearsBefore |-> 0, progress |-> << >>, watched |-> FALSE]

\* no call of parseTokens is being observed
IdleParse == [pc |-> "idle"]

\* no call of resolveClassName is being observed
IdleResolve == [pc |-> "idle"]

Active(r) == runs[r].pc \in {"finding", "reading", "yield"}

Init ==
    /\ lexInput = "" /\ lexContent = "" /\ lexPos = 0 /\ lexLine = 1 /\ lexColumn = 1
    /\ lexTokens = << >> /\ lexOut = "" /\ lexPc = "done"
    /\ classes = << >> /\ functions = << >> /\ namespaces = << >> /\ fileIndex = << >>
    /\ currentFile = None /\ currentNamespace = "" /\ currentClass = None
    /\ lastDocComment = None
    /\ totalFiles = 0 /\ processedFiles = 0 /\ onProgress = FALSE
    /\ runs = [r \in RunIds |-> IdleRun]
    /\ nRuns = 0 /\ nClears = 0 /\ nIoFailures = 0
    /\ fsId \in 1..Len(Trees)
    /\ finalTable = [r \in RunIds |-> None]
    /\ done = {} /\ parseRun = IdleParse /\ queryOut = None /\ resolveRun = IdleResolve

TableNow(cls) ==
    [classes |-> cls, functions |-> functions, namespaces |-> namespaces,
     fileIndex |-> fileIndex]

\* files.slice(i): every remaining file in one batch
BatchToTheEnd(files, i) == { files[n] : n \in (i + 1)..Len(files) }

\* files.slice(i, i + batchSize), as the set of reads issued by Promise.all
Batch(files, i) == { files[n] : n \in (i + 1)..Min(i + batchSize, Len(files)) }

\* lines 809-815 once postProcessIndex has ended as pp: return true, or rethrow
Finished(r, rec, pp) ==
    /\ classes' = pp.classes
    /\ runs' = [runs EXCEPT ![r] = [rec EXCEPT !.pc = IF pp.ok THEN "done" ELSE "failed",
                                               !.pending = {}, !.postProcessed = TRUE]]
    /\ finalTable' = [finalTable EXCEPT ![r] = Some(TableNow(pp.classes))]

\* line 809: the run's end after the last batch
FinishRun(r, rec) == Finished(r, rec, postProcessIndex(classes, fileIndex))

\* indexPhpFiles without its call of clearIndex()
StartIndexKeeps ==
    /\ nRuns < MaxRuns
    /\ nRuns' = nRuns + 1
    /\ runs' = [q \in RunIds |->
                  IF q = nRuns + 1
                  THEN [IdleRun EXCEPT !.pc = "finding",
                                       !.overlap = \E o \in RunIds : Active(o),
                                       !.clearsBefore = nClears,
                                       !.watched = onProgress]
                  ELSE IF Active(q) THEN [runs[q] EXCEPT !.overlap = TRUE]
                  ELSE runs[q]]
    /\ UNCHANGED <<lexVars, stepVars, done, tableVars, parserVars, progressVars, envVars,
                   finalTable>>

\* the plugin's indexPhpFiles up to the first await: clearIndex(), then the
\* enumeration is under way
StartIndex ==
    /\ nRuns < MaxRuns
    /\ nRuns' = nRuns + 1
    /\ runs' = [q \in RunIds |->
                  IF q = nRuns + 1
                  THEN [IdleRun EXCEPT !.pc = "finding",
                                       !.overlap = \E o \in RunIds : Active(o),
                                       !.clearsBefore = nClears,
                                       !.watched = onProgress]
                  ELSE IF Active(q) THEN [runs[q] EXCEPT !.overlap = TRUE]
                  ELSE runs[q]]
    /\ classes' = << >> /\ functions' = << >> /\ namespaces' = << >> /\ fileIndex' = << >>
    /\ done' = {}
    /\ UNCHANGED <<lexVars, stepVars, parserVars, progressVars, envVars, finalTable>>

\* lines 787-796 with the list findPhpFiles resolved to
Listed(r, rec, files) ==
    /\ totalFiles' = Len(files)
    /\ processedFiles' = 0
    /\ IF Len(files) = 0
       THEN FinishRun(r, [rec EXCEPT !.files = files, !.i = 0])
       ELSE /\ runs' = [runs EXCEPT ![r] =
                           [rec EXCEPT !.files = files, !.i = 0, !.pc = "reading",
                                       !.pending = Batch(files, 0)]]
            /\ UNCHANGED <<classes, finalTable>>

\* findPhpFiles has resolved: lines 787-796 (the first batch's reads are issued),
\* or 809-811 when there is no file
FindDone(r) ==
    /\ runs[r].pc = "finding"
    /\ \E failing \in SUBSET ListedDirs(Tree) :
         /\ nIoFailures + Cardinality(failing) <= MaxIoFailures
         /\ nIoFailures' = nIoFailures + Cardinality(failing)
         /\ Listed(r, [runs[r] EXCEPT !.rootFailed = Root \in failing, !.failing = failing],
                   findPhpFiles(Tree, Root, failing))
    /\ UNCHANGED <<lexVars, stepVars, done, functions, namespaces, fileIndex, parserVars,
                   onProgress, nRuns, nClears, fsId>>

\* Promise.all resolving as soon as one unit of the batch has settled
AfterUnitFirst(r, rec) ==
    /\ runs' = [runs EXCEPT ![r] = [rec EXCEPT !.pc = "yield"]]
    /\ processedFiles' = Min(rec.i + batchSize, Len(rec.files))

\* the progress update without Math.min: processedFiles = i + batchSize
AfterUnitNoMin(r, rec) ==
    IF rec.pending = {}
    THEN /\ runs' = [runs EXCEPT ![r] =
                        [rec EXCEPT !.pc = "yield",
                                    !.progress = IF onProgress
                                                 THEN Append(@, <<rec.i + batchSize, totalFiles>>)
                                                 ELSE @]]
         /\ processedFiles' = rec.i + batchSize
    ELSE /\ runs' = [runs EXCEPT ![r] = rec]
         /\ UNCHANGED processedFiles

\* when the last unit of the batch settles Promise.all resolves: lines 799-805,
\* with the call of the progress callback recorded in the run's history
AfterUnit(r, rec) ==
    IF rec.pending = {}
    THEN /\ runs' = [runs EXCEPT ![r] =
                        [rec EXCEPT !.pc = "yield",
                                    !.progress =
                                        IF onProgress
                                        THEN Append(@, <<Min(rec.i + batchSize, Len(rec.files)),
                                                         totalFiles>>)
                                        ELSE @]]
         /\ processedFiles' = Min(rec.i + batchSize, Len(rec.files))
    ELSE /\ runs' = [runs EXCEPT ![r] = rec]
         /\ UNCHANGED processedFiles

\* the indexer's fields after the parse
Parsed(out) ==
    /\ classes' = out.classes
    /\ functions' = out.functions
    /\ namespaces' = out.namespaces
    /\ fileIndex' = out.fileIndex
    /\ currentFile' = out.currentFile
    /\ currentNamespace' = out.currentNamespace
    /\ currentClass' = out.currentClass
    /\ lastDocComment' = out.lastDocComment

\* processPhpFile after its read delivered the content: lines 900-919
ReadDone(r, f) ==
    /\ runs[r].pc = "reading"
    /\ f \in runs[r].pending
    /\ Parsed(processFileContent(
           [classes |-> classes, functions |-> functions, namespaces |-> namespaces,
            fileIndex |-> fileIndex, lastDocComment |-> lastDocComment],
           f, MapGet(Tree.files, f)))
    /\ AfterUnit(r, [runs[r] EXCEPT !.pending = @ \ {f}, !.log = Append(@, f)])
    /\ UNCHANGED <<lexVars, stepVars, done, totalFiles, onProgress, nRuns, envVars, finalTable>>

\* a rejected readFile propagating out of processPhpFile and Promise.all to the
\* catch of indexPhpFiles
ReadFailAborts(r, f) ==
    /\ runs[r].pc = "reading"
    /\ f \in runs[r].pending
    /\ nIoFailures < MaxIoFailures
    /\ nIoFailures' = nIoFailures + 1
    /\ runs' = [runs EXCEPT ![r] = [@ EXCEPT !.pc = "failed", !.pending = {},
                                             !.readFailed = TRUE, !.failed = @ \cup {f}]]
    /\ UNCHANGED <<lexVars, stepVars, done, tableVars, parserVars, progressVars, nRuns, nClears,
                   fsId, finalTable>>

\* processPhpFile when readFile rejects: the catch of lines 921-923
ReadFail(r, f) ==
    /\ runs[r].pc = "reading"
    /\ f \in runs[r].pending
    /\ nIoFailures < MaxIoFailures
    /\ nIoFailures' = nIoFailures + 1
    /\ AfterUnit(r, [runs[r] EXCEPT !.pending = @ \ {f}, !.readFailed = TRUE,
                                    !.failed = @ \cup {f}])
    /\ UNCHANGED <<lexVars, stepVars, done, tableVars, parserVars, totalFiles, onProgress,
                   nRuns, nClears, fsId, finalTable>>

\* the timer of line 805 fires: the next batch's reads are issued, or the loop
\* ends and postProcessIndex runs
Yield(r) ==
    /\ runs[r].pc = "yield"
    /\ LET rec == [runs[r] EXCEPT !.i = @ + batchSize]
       IN IF rec.i < Len(rec.files)
          THEN /\ runs' = [runs EXCEPT ![r] =
                              [rec EXCEPT !.pc = "reading", !.pending = Batch(rec.files, rec.i)]]
               /\ UNCHANGED <<classes, finalTable>>
          ELSE FinishRun(r, rec)
    /\ UNCHANGED <<lexVars, stepVars, done, functions, namespaces, fileIndex, parserVars, progressVars,
                   nRuns, envVars>>

\* the plugin's clearIndex once the dialog is confirmed: indexer.clearIndex()
ClearIndex ==
    /\ nClears < MaxClears
    /\ nClears' = nClears + 1
    /\ classes' = << >> /\ functions' = << >> /\ namespaces' = << >> /\ fileIndex' = << >>
    /\ done' = {}
    /\ runs' = [q \in RunIds |-> IF Active(q) THEN [runs[q] EXCEPT !.cleared = TRUE] ELSE runs[q]]
    /\ UNCHANGED <<lexVars, stepVars, parserVars, progressVars, nRuns, nIoFailures, fsId,
                   finalTable>>

\* setProgressCallback(callback) with a function: lines 772-774; the host
\* installs its callback while no call of indexPhpFiles is under way
SetProgressCallback ==
    /\ ~onProgress
    /\ \A r \in RunIds : ~Active(r)
    /\ onProgress' = TRUE
    /\ UNCHANGED <<lexVars, stepVars, done, tableVars, parserVars, totalFiles, processedFiles,
                   runs, nRuns, envVars, finalTable>>

Next ==
    \/ StartIndex
    \/ SetProgressCallback
    \/ \E r \in RunIds : FindDone(r)
    \/ \E r \in RunIds : \E f \in runs[r].pending : ReadDone(r, f)
    \/ \E r \in RunIds : \E f \in runs[r].pending : ReadFail(r, f)
    \/ \E r \in RunIds : Yield(r)
    \/ ClearIndex

Spec == Init /\ [][Next]_vars

(***************************************************************************)
(* The indexing run over a directory of more than batchSize files, with    *)
(* the reads of a batch settling in the order they were issued.            *)
(***************************************************************************)
InitBatch ==
    /\ lexInput = "" /\ lexContent = "" /\ lexPos = 0 /\ lexLine = 1 /\ lexColumn = 1
    /\ lexTokens = << >> /\ lexOut = "" /\ lexPc = "done"
    /\ classes = << >> /\ functions = << >> /\ namespaces = << >> /\ fileIndex = << >>
    /\ currentFile = None /\ currentNamespace = "" /\ currentClass = None
    /\ lastDocComment = None
    /\ totalFiles = 0 /\ processedFiles = 0 /\ onProgress = FALSE
    /\ runs = [r \in RunIds |-> IdleRun]
    /\ nRuns = 0 /\ nClears = 0 /\ nIoFailures = 0
    /\ fsId = Len(AllTrees)
    /\ finalTable = [r \in RunIds |-> None]
    /\ done = {} /\ parseRun = IdleParse /\ queryOut = None /\ resolveRun = IdleResolve

\* the files of a run whose read has settled are the first ones of its list
InIssueOrder ==
    \A r \in RunIds :
        LET settled == { runs[r].log[n] : n \in 1..Len(runs[r].log) } \cup runs[r].failed
        IN settled = { runs[r].files[n] : n \in 1..Cardinality(settled) }

MaxBatchRuns == 1

NextBatch == Next /\ InIssueOrder' /\ nRuns' <= MaxBatchRuns

SpecBatch == InitBatch /\ [][NextBatch]_vars

(***************************************************************************)
(* Properties of the indexing run.                                         *)
(***************************************************************************)
Returned(r) == runs[r].pc \in {"done", "failed"}

\* the call ran with no other call of indexPhpFiles and no clear command
\* between its start and its return
Undisturbed(r) == Returned(r) /\ ~runs[r].overlap /\ ~runs[r].cleared

LogSet(r) == { runs[r].log[n] : n \in 1..Len(runs[r].log) }

FinalClasses(r) == finalTable[r][1].classes

HasVisibility(mods) == "public" \in mods \/ "protected" \in mods

\* C1: in an undisturbed run that indexed both files of the example tree,
\* App\Child's methods map holds foo tagged inherited and does not hold bar.
C1_ChildInheritsFoo ==
    \A r \in RunIds :
        (fsId = 1 /\ Undisturbed(r) /\ LogSet(r) = {"/pm/a.php", "/pm/b.php"})
        => /\ MapHas(FinalClasses(r), "App\\Child")
           /\ LET m == MapGet(FinalClasses(r), "App\\Child").methods
              IN /\ MapHas(m, "foo")
                 /\ MapGet(m, "foo").inherited
                 /\ ~MapHas(m, "bar")

\* the methods the example tree's a.php writes with leading modifiers
WrittenMethods ==
    { [file |-> "/pm/a.php", class |-> "App\\Base", name |-> "foo", modifiers |-> {"public"}],
      [file |-> "/pm/a.php", class |-> "App\\Base", name |-> "bar", modifiers |-> {"private"}] }

\* C2: every method written with leading modifiers in a file an undisturbed run
\* parsed is in its class's methods map, with every written modifier, and with
\* public exactly when public was written or no visibility was written.
C2_ModifiedMethodsRegistered ==
    \A r \in RunIds : \A w \in WrittenMethods :
        (fsId = 1 /\ Undisturbed(r) /\ w.file \in LogSet(r))
        => /\ MapHas(FinalClasses(r), w.class)
           /\ LET m == MapGet(FinalClasses(r), w.class).methods
              IN /\ MapHas(m, w.name)
                 /\ w.modifiers \subseteq MapGet(m, w.name).modifiers
                 /\ ("public" \in MapGet(m, w.name).modifiers)
                      <=> ("public" \in w.modifiers
                           \/ w.modifiers \cap {"public", "protected", "private"} = {})

AnyInherited(m) == \E n \in 1..Len(m) : m[n].v.inherited

\* C3: an undisturbed run over the tree of extends cycles returns successfully
\* and leaves no member tagged inherited in any class of a cycle.
C3_CycleRunCompletes ==
    \A r \in RunIds :
        (fsId = 3 /\ Undisturbed(r) /\ LogSet(r) # {})
        => /\ runs[r].pc = "done"
           /\ \A n \in 1..Len(FinalClasses(r)) :
                /\ ~AnyInherited(FinalClasses(r)[n].v.methods)
                /\ ~AnyInherited(FinalClasses(r)[n].v.properties)

EmptyIndexer ==
    [classes |-> << >>, functions |-> << >>, namespaces |-> << >>, fileIndex |-> << >>,
     lastDocComment |-> None]

\* the class objects a file declares, as a parse of the file alone registers them
OwnClasses(file) == processFileContent(EmptyIndexer, file, MapGet(Tree.files, file)).classes

\* every member the class's own text declares is in the map as declared, untagged
OwnKept(map, own) ==
    \A n \in 1..Len(own) :
        /\ MapHas(map, own[n].k)
        /\ ~MapGet(map, own[n].k).inherited
        /\ MapGet(map, own[n].k).file = own[n].v.file
        /\ MapGet(map, own[n].k).modifiers = own[n].v.modifiers
        /\ MapGet(map, own[n].k).line = own[n].v.line

OnlyVisibleInherited(map, own) ==
    \A n \in 1..Len(map) :
        /\ ~MapHas(own, map[n].k) => map[n].v.inherited
        /\ map[n].v.inherited => HasVisibility(map[n].v.modifiers)

C6_RootFailureRejects ==
    \A r \in RunIds : runs[r].rootFailed => runs[r].pc # "done"

\* a Map's entries without their insertion order
Entries(m) == { m[n] : n \in 1..Len(m) }

ClassEntries(cls) ==
    { [k |-> cls[n].k,
       v |-> [cls[n].v EXCEPT !.methods = Entries(@), !.properties = Entries(@),
                              !.constants = Entries(@)]] : n \in 1..Len(cls) }

FileEntries(fidx) ==
    { [k |-> fidx[n].k,
       v |-> [fidx[n].v EXCEPT !.uses = Entries(@), !.classes = Entries(@),
                               !.functions = Entries(@)]] : n \in 1..Len(fidx) }

\* the symbol table's content: equal for two tables that differ only in the
\* insertion order of their maps
Content(table) ==
    [classes |-> ClassEntries(table.classes),
     functions |-> Entries(table.functions),
     namespaces |-> Entries(table.namespaces),
     fileIndex |-> FileEntries(table.fileIndex)]

RECURSIVE IndexFiles(_, _)
IndexFiles(ix, files) ==
    IF files = << >> THEN ix
    ELSE IndexFiles(processFileContent(ix, Head(files), MapGet(Tree.files, Head(files))),
                    Tail(files))

\* the table a run alone leaves on a new indexer when its reads deliver `files`
\* in this order
AloneTable(files) ==
    LET ix == IndexFiles(EmptyIndexer, files)
    IN [classes |-> postProcessIndex(ix.classes, ix.fileIndex).classes,
        functions |-> ix.functions,
        namespaces |-> ix.namespaces,
        fileIndex |-> ix.fileIndex]

\* the call listed every file of the tree and every read delivered its content
ReadAll(r) == runs[r].files = findPhpFiles(Tree, Root, {}) /\ Len(runs[r].log) = Len(runs[r].files)

\* C7: in the chain tree, the latest call, started while an earlier call was in
\* progress, returns with the table content it would have produced alone.
C7_NewRunUnaffected ==
    \A r \in RunIds :
        (/\ fsId = 2 /\ r = nRuns /\ Returned(r)
         /\ runs[r].overlap /\ ~runs[r].cleared /\ ReadAll(r))
        => Content(finalTable[r][1]) = Content(AloneTable(runs[r].log))

\* C8: two calls in succession, neither disturbed nor hit by a read or listing
\* failure, whose reads were delivered in the same order, return with the same
\* table content.
C8_SecondRunSameTable ==
    \A r \in RunIds : \A q \in RunIds :
        (/\ q = r + 1
         /\ Undisturbed(r) /\ Undisturbed(q)
         /\ runs[r].pc = "done" /\ runs[q].pc = "done"
         /\ ReadAll(r) /\ ReadAll(q)
         /\ runs[r].log = runs[q].log)
        => Content(finalTable[q][1]) = Content(finalTable[r][1])

FileSet(r) == { runs[r].files[n] : n \in 1..Len(runs[r].files) }

\* the keys of the symbol table's four maps
Keys(table) ==
    [classes |-> MapKeys(table.classes), functions |-> MapKeys(table.functions),
     namespaces |-> MapKeys(table.namespaces), fileIndex |-> MapKeys(table.fileIndex)]

\* the files the declarations of the table come from
DeclaringFiles(table) ==
    { table.classes[n].v.file : n \in 1..Len(table.classes) }
        \cup { table.functions[n].v.file : n \in 1..Len(table.functions) }
        \cup { table.fileIndex[n].v.path : n \in 1..Len(table.fileIndex) }

ResolverOk(ix) == postProcessIndex(ix.classes, ix.fileIndex).ok

\* whether a run alone on a new indexer returns true when its reads deliver `files`
AloneOk(files) == ResolverOk(IndexFiles(EmptyIndexer, files))

\* the run's resolver pass ran, over the table of exactly the files whose
\* reads delivered, and the run returned as that pass ended
RanToTheEnd(r) ==
    /\ runs[r].postProcessed
    /\ LogSet(r) = FileSet(r) \ runs[r].failed
    /\ (runs[r].pc = "done") = AloneOk(runs[r].log)

\* C12: in an undisturbed run in which a file's read failed, the failing file
\* has no file record and declares no class or function of the table, the
\* table's classes, functions, namespaces and file records are those of the
\* other files, every other enumerated file was parsed, and the resolver pass
\* ran and the call returned as it does for the other files alone.
C12_ReadFailureSkipsFile ==
    \A r \in RunIds :
        (Undisturbed(r) /\ runs[r].failed # {})
        => /\ RanToTheEnd(r)
           /\ DeclaringFiles(finalTable[r][1]) \cap runs[r].failed = {}
           /\ \A f \in runs[r].failed :
                ~MapHas(finalTable[r][1].fileIndex, normalizeFilePath(f))
           /\ Keys(finalTable[r][1]) = Keys(AloneTable(runs[r].log))

\* the chain tree's run returned true after the read of base.php failed:
\* Child and Grand are indexed, Base is not
C12_Witness ==
    /\ fsId = 2
    /\ runs[1].pc = "done" /\ Undisturbed(1)
    /\ runs[1].failed = {"/pm/base.php"}
    /\ runs[1].log = << "/pm/src/child.php" >>
    /\ MapKeys(classes) = {"App\\Child", "App\\Grand"}
    /\ MapKeys(fileIndex) = {"/pm/src/child.php"}

Under(path, dir) == StartsWith(path, dir \o "/")

\* the .php files of the tree below no skipped directory and below no
\* directory of `failing`
ReachableFiles(tree, failing) ==
    { f \in MapKeys(tree.files) :
        /\ EndsWith(f, ".php")
        /\ \A d \in MapKeys(tree.dirs) :
             Under(f, d) => (d \in ListedDirs(tree) /\ d \notin failing) }

\* the sequence lists the elements of the set, each once
ListsExactly(seq, set) ==
    /\ { seq[n] : n \in 1..Len(seq) } = set
    /\ Len(seq) = Cardinality(set)

\* C13: when the listing of directories below the root failed (and the root's
\* did not), the call's file list is exactly the .php files outside the failing
\* subtrees, those listed before the failure and those of sibling directories
\* included, and an undisturbed call goes on to its resolver pass and returns
\* as it does for the files it parsed.
C13_SubtreeFailureSkipsSubtree ==
    \A r \in RunIds :
        (/\ runs[r].pc \notin {"idle", "finding"}
         /\ runs[r].failing # {}
         /\ Root \notin runs[r].failing)
        => /\ ListsExactly(runs[r].files, ReachableFiles(Tree, runs[r].failing))
           /\ Undisturbed(r) => RanToTheEnd(r)

\* the names tree's run returned true after the listing of /pm/one failed: the
\* file of the sibling directory /pm/two is indexed
C13_Witness ==
    /\ fsId = 5
    /\ runs[1].pc = "done" /\ Undisturbed(1)
    /\ runs[1].failing = {"/pm/one"}
    /\ runs[1].files = << "/pm/two/h.php" >>
    /\ MapKeys(functions) = {"Get\\getY", "Get\\get"}
    /\ classes = << >>

Settled(rec) ==
    /\ rec.pending = {}
    /\ { rec.log[n] : n \in 1..Len(rec.log) } \cup rec.failed
         = { rec.files[n] : n \in 1..Len(rec.files) }

\* C14: the step in which a call's resolver pass runs finds every file of the
\* call settled (its read delivered and parsed, or failed), and no file of the
\* call is parsed or fails after its resolver pass.
C14_ResolverAfterAllFiles ==
    [][\A r \in RunIds :
         /\ (runs'[r].postProcessed /\ ~runs[r].postProcessed)
               => (Settled(runs'[r]) /\ runs'[r].log = runs[r].log
                   /\ runs'[r].failed = runs[r].failed)
         /\ runs[r].postProcessed
               => (runs'[r].log = runs[r].log /\ runs'[r].failed = runs[r].failed)]_vars

\* a call over the two files of the chain tree has run its resolver pass after
\* both reads delivered
C14_Witness ==
    /\ fsId = 2
    /\ runs[1].postProcessed
    /\ Len(runs[1].log) = 2
    /\ runs[1].pending = {}
    /\ MapHas(classes, "App\\Grand") /\ MapGet(classes, "App\\Grand").inheritanceResolved

\* the functions a file declares, as a parse of the file alone registers them
OwnFunctions(file) == processFileContent(EmptyIndexer, file, MapGet(Tree.files, file)).functions

\* no two files of the tree declare the same fully-qualified class or function
DistinctDeclarations ==
    \A f \in MapKeys(Tree.files) : \A g \in MapKeys(Tree.files) :
        f # g => /\ MapKeys(OwnClasses(f)) \cap MapKeys(OwnClasses(g)) = {}
                 /\ MapKeys(OwnFunctions(f)) \cap MapKeys(OwnFunctions(g)) = {}

\* C15: the first call on a new indexer, undisturbed and with every read
\* delivered, over files that declare no fully-qualified name twice, returns
\* with the table content of the reads delivered in listing order, whatever
\* order they were delivered in.
C15_OrderIndependent ==
    \A r \in RunIds :
        (r = 1 /\ Undisturbed(r) /\ ReadAll(r) /\ DistinctDeclarations)
        => Content(finalTable[r][1]) = Content(AloneTable(runs[r].files))

\* C17: the table an undisturbed call returns with holds the classes,
\* functions, namespaces and file records of the files the call parsed and no
\* other, and every declaration in it comes from a file the call enumerated.
C17_OnlyThisRunsDeclarations ==
    \A r \in RunIds :
        Undisturbed(r)
        => /\ Keys(finalTable[r][1]) = Keys(AloneTable(runs[r].log))
           /\ DeclaringFiles(finalTable[r][1]) \subseteq FileSet(r)

\* the chain tree's second call returned after the read of base.php failed:
\* Base, which the first call had indexed, is gone
C17_Witness ==
    /\ fsId = 2
    /\ Undisturbed(1) /\ Undisturbed(2)
    /\ runs[1].failed = {} /\ runs[2].failed = {"/pm/base.php"}
    /\ MapHas(finalTable[1][1].classes, "App\\Base")
    /\ MapKeys(finalTable[2][1].classes) = {"App\\Child", "App\\Grand"}
    /\ MapKeys(classes) = {"App\\Child", "App\\Grand"}

TableEmpty ==
    classes = << >> /\ functions = << >> /\ namespaces = << >> /\ fileIndex = << >>

\* no call of indexPhpFiles was started since the last clear command
NoRunSinceClear ==
    /\ nClears > 0
    /\ \A q \in RunIds : runs[q].pc # "idle" => runs[q].clearsBefore < nClears

\* C18: from a confirmed clear command until the next call of indexPhpFiles
\* starts, the symbol table is empty.
C18_ClearedStaysEmpty == NoRunSinceClear => TableEmpty

(***************************************************************************)
(* The lexer run, one scan-loop iteration per step.                        *)
(***************************************************************************)
MaxPieces == 3

Pieces == {" ", "\n", "<?php", "/*", "*/", "/", "*", "#", "\"", "'", "\\", "$",
           "a", "B", "1", ";", BOM}

RECURSIVE Words(_)
Words(n) ==
    IF n = 0 THEN {""}
    ELSE LET W == Words(n - 1) IN W \cup { w \o p : w \in W, p \in Pieces }

LexInputs == Words(MaxPieces)

InitLex ==
    /\ lexInput \in LexInputs
    /\ lexContent = ""
    /\ lexPos = 0
    /\ lexLine = 1
    /\ lexColumn = 1
    /\ lexTokens = << >>
    /\ lexOut = ""
    /\ lexPc = "start"
    /\ classes = << >> /\ functions = << >> /\ namespaces = << >> /\ fileIndex = << >>
    /\ currentFile = None /\ currentNamespace = "" /\ currentClass = None
    /\ lastDocComment = None
    /\ totalFiles = 0 /\ processedFiles = 0 /\ onProgress = FALSE
    /\ runs = [r \in RunIds |-> IdleRun]
    /\ nRuns = 0 /\ nClears = 0 /\ nIoFailures = 0
    /\ fsId = 1
    /\ finalTable = [r \in RunIds |-> None]
    /\ done = {} /\ parseRun = IdleParse /\ queryOut = None /\ resolveRun = IdleResolve

\* lines 932-940
LexStart ==
    /\ lexPc = "start"
    /\ lexContent' = StripBOM(lexInput)
    /\ lexPc' = "scan"
    /\ UNCHANGED <<lexInput, lexPos, lexLine, lexColumn, lexTokens, lexOut>>
    /\ UNCHANGED <<tableVars, parserVars, progressVars, runs, nRuns, envVars, finalTable,
                   done, stepVars>>

\* lines 942-1105, one iteration
LexStep ==
    /\ lexPc = "scan"
    /\ lexPos < Len(lexContent)
    /\ LET r == ScanStep(lexContent, lexPos, lexLine, lexColumn)
       IN /\ lexPos' = r.i
          /\ lexLine' = r.line
          /\ lexColumn' = r.column
          /\ lexTokens' = lexTokens \o r.tokens
          /\ lexOut' = lexOut \o (IF r.tokens = << >>
                                  THEN CharAt(lexContent, lexPos)
                                  ELSE r.tokens[1].value)
    /\ UNCHANGED <<lexInput, lexContent, lexPc>>
    /\ UNCHANGED <<tableVars, parserVars, progressVars, runs, nRuns, envVars, finalTable,
                   done, stepVars>>

\* line 1107
LexReturn ==
    /\ lexPc = "scan"
    /\ lexPos >= Len(lexContent)
    /\ lexPc' = "done"
    /\ UNCHANGED <<lexInput, lexContent, lexPos, lexLine, lexColumn, lexTokens, lexOut>>
    /\ UNCHANGED <<tableVars, parserVars, progressVars, runs, nRuns, envVars, finalTable,
                   done, stepVars>>

NextLex ==
    \/ LexStart
    \/ LexStep
    \/ LexReturn

SpecLex == InitLex /\ [][NextLex]_vars

(***************************************************************************)
(* Properties of the lexer.                                                *)
(***************************************************************************)
\* C9: every iteration of tokenize's scan loop moves the scan position forward
\* by at least one character and never beyond the end of the content, so the
\* loop ends after at most Len(content) iterations.
C9_ScanAdvances ==
    [][(lexPc = "scan" /\ lexPc' = "scan")
        => (lexPos < lexPos' /\ lexPos' <= Len(lexContent))]_vars

\* tokenize has returned on an unterminated block comment followed by a lone $
C9_Witness ==
    /\ lexPc = "done"
    /\ lexInput = "/*$"
    /\ lexPos = Len(lexContent)
    /\ Len(lexTokens) = 2

\* C10: the token texts emitted so far, with the skipped whitespace characters
\* put back between them, are the content scanned so far; the content is the
\* input less one leading byte-order mark; when tokenize returns they are the
\* whole content.
C10_TokensCoverInput ==
    lexPc # "start"
    => /\ lexContent = StripBOM(lexInput)
       /\ lexOut = Substring(lexContent, 0, lexPos)
       /\ lexPc = "done" => lexOut = lexContent

\* tokenize has returned on an input of a byte-order mark, a space and a word
C10_Witness ==
    /\ lexPc = "done"
    /\ lexInput = BOM \o " " \o "a"
    /\ lexContent = " a"
    /\ lexOut = " a"
    /\ Len(lexTokens) = 1

(***************************************************************************)
(* One call of parseTokens (1115-1151), observed one loop iteration at a   *)
(* time: the top-level loop, and the class-body loop of parseClass         *)
(* (1323-1355) while a class body is open.                                 *)
(***************************************************************************)
MaxChunks == 3

Chunks == {"namespace N;", "use", "class A {", "class", "function", "f()", "public",
           "const", "$a", ";", "}", "{", "/** d */", "= 1", "("}

RECURSIVE ChunkWords(_)
ChunkWords(n) ==
    IF n = 0 THEN {""}
    ELSE LET W == ChunkWords(n - 1) IN W \cup { w \o " " \o c : w \in W, c \in Chunks }

\* class-like declarations with several parents, and classes followed by a
\* global function whose bodies hold closures, `static` and typed members
ParseExamples ==
    { "interface X extends A, B {}",
      "class X extends A implements I, J {}",
      "class A { function m(){ if ($a) { return 1; } } function n(){} } function g(){}",
      "class A { function m(){ $f = function(){}; } function n(){} } function g(){}",
      "class A { function m(){ static $n; } function n(){} } function g(){}",
      "class A { public function m(){} function n(){} } function g(){}",
      "namespace A\\B;class C{}namespace A;class B\\C{}",
      "/** a */ class A { /** m */ function m(){} function n(){} /** p */ public $p, $q; public $r; } function g(){}" }

\* every file of the indexed trees, every text of up to MaxChunks chunks, and
\* the examples
ParseInputs ==
    ChunkWords(MaxChunks) \cup ParseExamples
        \cup UNION { { Trees[t].files[n].v : n \in 1..Len(Trees[t].files) } :
                       t \in 1..Len(Trees) }

ParsePath == "/pm/x.php"

\* the parser state processPhpFile hands to parseTokens on a fresh indexer
FreshParserState ==
    [classes |-> << >>, functions |-> << >>, namespaces |-> << >>,
     fileData |-> NewFileData(ParsePath),
     currentFile |-> ParsePath, currentNamespace |-> "", currentClass |-> None,
     lastDocComment |-> None]

InitParse ==
    /\ lexInput = "" /\ lexContent = "" /\ lexPos = 0 /\ lexLine = 1 /\ lexColumn = 1
    /\ lexTokens = << >> /\ lexOut = "" /\ lexPc = "done"
    /\ classes = << >> /\ functions = << >> /\ namespaces = << >> /\ fileIndex = << >>
    /\ currentFile = None /\ currentNamespace = "" /\ currentClass = None
    /\ lastDocComment = None
    /\ totalFiles = 0 /\ processedFiles = 0 /\ onProgress = FALSE
    /\ runs = [r \in RunIds |-> IdleRun]
    /\ nRuns = 0 /\ nClears = 0 /\ nIoFailures = 0
    /\ fsId = 1
    /\ finalTable = [r \in RunIds |-> None]
    /\ done = {} /\ queryOut = None /\ resolveRun = IdleResolve
    /\ \E src \in ParseInputs : parseRun = [pc |-> "start", src |-> src]

\* the observed call after one more iteration: the loop `loop` is at index i
\* with parser state st; `iter` counts the iterations
ParseAt(loop, i, st, braceDepth, classStart) ==
    [pc |-> loop, src |-> parseRun.src, tokens |-> parseRun.tokens, i |-> i, st |-> st,
     braceDepth |-> braceDepth, classStart |-> classStart, iter |-> parseRun.iter + 1]

\* the top-level loop goes on after a declaration parser returned r
ParseTopAfter(r) == ParseAt("top", r.i, r.st, 0, 0)

\* the body loop goes on after a member parser returned r
ParseBodyAfter(r) ==
    ParseAt("body", r.i, r.st, parseRun.braceDepth, parseRun.classStart)

\* parseClass entered at `start` up to its body loop (1241-1321): the class has a
\* name, is registered as st1, and the header ended at i
ParseClassOpened(tokens, start, i, st1) ==
    IF i >= Len(tokens) \/ T(tokens, i).value # "{"
    THEN ParseAt("top", i, st1, 0, 0)
    ELSE ParseAt("body", i + 1, st1, 1, start)

ParseClassHeader(tokens, start, st, modifiers, className, h) ==
    ParseClassOpened(tokens, start, h.i,
        RegisterClass(st, tokens, start, className, modifiers, h.extends, h.implements))

ParseClassNamed(tokens, start, st, modifiers, i0) ==
    IF i0 >= Len(tokens) \/ T(tokens, i0).type # "T_STRING"
    THEN ParseAt("top", i0, st, 0, 0)
    ELSE ParseClassHeader(tokens, start, st, modifiers, T(tokens, i0).value,
                          HeaderLoop(tokens, i0 + 1, << >>, << >>))

ParseClassEnter(tokens, start, st) ==
    ParseClassNamed(tokens, start, st,
        BackwardModifiers(tokens, start - 1, {"T_ABSTRACT", "T_FINAL"}),
        SkipTypes(tokens, start + 1, {"T_WHITESPACE", "T_COMMENT", "T_DOC_COMMENT"}))

\* processPhpFile line 905 and the entry of parseTokens
ParseStart ==
    /\ parseRun.pc = "start"
    /\ parseRun' = [pc |-> "top", src |-> parseRun.src, tokens |-> tokenize(parseRun.src),
                    i |-> 0, st |-> FreshParserState, braceDepth |-> 0, classStart |-> 0,
                    iter |-> 0]
    /\ UNCHANGED <<lexVars, tableVars, parserVars, progressVars, runs, nRuns, envVars,
                   finalTable, done, queryOut, resolveRun>>

\* one iteration of the loop of parseTokens, lines 1119-1150
ParseTop ==
    /\ parseRun.pc = "top"
    /\ parseRun.i < Len(parseRun.tokens)
    /\ LET tokens == parseRun.tokens
           i == parseRun.i
           st == parseRun.st
           type == T(tokens, i).type
       IN parseRun' =
            IF type = "T_NAMESPACE" THEN ParseTopAfter(parseNamespace(tokens, i, st))
            ELSE IF type = "T_USE" THEN ParseTopAfter(parseUse(tokens, i, st))
            ELSE IF type \in {"T_CLASS", "T_INTERFACE", "T_TRAIT"}
            THEN ParseClassEnter(tokens, i, st)
            ELSE IF type = "T_FUNCTION" THEN ParseTopAfter(parseFunction(tokens, i, st))
            ELSE IF type = "T_DOC_COMMENT"
            THEN ParseAt("top", i + 1,
                     [st EXCEPT !.lastDocComment = Some(parseDocComment(T(tokens, i).value))],
                     0, 0)
            ELSE ParseAt("top", i + 1, st, 0, 0)
    /\ UNCHANGED <<lexVars, tableVars, parserVars, progressVars, runs, nRuns, envVars,
                   finalTable, done, queryOut, resolveRun>>

\* one iteration of the body loop of parseClass, lines 1323-1355
ParseBody ==
    /\ parseRun.pc = "body"
    /\ parseRun.i < Len(parseRun.tokens)
    /\ parseRun.braceDepth > 0
    /\ LET tokens == parseRun.tokens
           i == parseRun.i
           st == parseRun.st
           tk == T(tokens, i)
       IN parseRun' =
            IF tk.value = "{"
            THEN ParseAt("body", i + 1, st, parseRun.braceDepth + 1, parseRun.classStart)
            ELSE IF tk.value = "}"
            THEN ParseAt("body", i + 1, st, parseRun.braceDepth - 1, parseRun.classStart)
            ELSE IF tk.type = "T_DOC_COMMENT"
            THEN ParseAt("body", i + 1,
                     [st EXCEPT !.lastDocComment = Some(parseDocComment(tk.value))],
                     parseRun.braceDepth, parseRun.classStart)
            ELSE IF tk.type = "T_FUNCTION" THEN ParseBodyAfter(parseFunction(tokens, i, st))
            ELSE IF DispatchesToProperty(tk.type)
            THEN ParseBodyAfter(parseProperty(tokens, i, st))
            ELSE ParseAt("body", i + 1, st, parseRun.braceDepth, parseRun.classStart)
    /\ UNCHANGED <<lexVars, tableVars, parserVars, progressVars, runs, nRuns, envVars,
                   finalTable, done, queryOut, resolveRun>>

\* the body loop is over: lines 1357-1359, parseClass returns i to parseTokens
ParseClassReturn ==
    /\ parseRun.pc = "body"
    /\ ~(parseRun.i < Len(parseRun.tokens) /\ parseRun.braceDepth > 0)
    /\ parseRun' = [parseRun EXCEPT !.pc = "top", !.st.currentClass = None]
    /\ UNCHANGED <<lexVars, tableVars, parserVars, progressVars, runs, nRuns, envVars,
                   finalTable, done, queryOut, resolveRun>>

\* the loop of parseTokens is over
ParseReturn ==
    /\ parseRun.pc = "top"
    /\ parseRun.i >= Len(parseRun.tokens)
    /\ parseRun' = [parseRun EXCEPT !.pc = "done"]
    /\ UNCHANGED <<lexVars, tableVars, parserVars, progressVars, runs, nRuns, envVars,
                   finalTable, done, queryOut, resolveRun>>

NextParse ==
    \/ ParseStart
    \/ ParseTop
    \/ ParseBody
    \/ ParseClassReturn
    \/ ParseReturn

SpecParse == InitParse /\ [][NextParse]_vars

(***************************************************************************)
(* Properties of the parser.                                               *)
(***************************************************************************)
InLoop(p) == p.pc \in {"top", "body"}

\* C11: every iteration of the top-level loop of parseTokens and of the
\* class-body loop of parseClass leaves the loop at an index strictly greater
\* than the one it was entered with, parseClass returns to parseTokens an index
\* strictly greater than the index of its class keyword, and no index goes
\* beyond one past the end of the tokens: the parse ends after finitely many
\* iterations, and no token is read outside the token array
C11_DispatchAdvances ==
    [][(InLoop(parseRun) /\ InLoop(parseRun'))
        => /\ parseRun'.i <= Len(parseRun.tokens) + 1
           /\ IF parseRun.pc = "body" /\ parseRun'.pc = "top"
              THEN parseRun'.i > parseRun.classStart
              ELSE parseRun'.i > parseRun.i]_vars

\* the parse of the chain example's child file has returned, after the class
\* body loop dispatched to parseProperty and parseFunction, with the state the
\* whole parseTokens computes
C11_Witness ==
    /\ parseRun.pc = "done"
    /\ parseRun.src = TreeChain.files[2].v
    /\ parseRun.iter > 6
    /\ parseRun.st = parseTokens(parseRun.tokens, FreshParserState)
    /\ MapKeys(parseRun.st.classes) = {"App\\Child", "App\\Grand"}

(***************************************************************************)
(* Completion queries (1832-2316).  A query returns [ok, list, done]: ok   *)
(* is FALSE when the query calls a method of a value that is undefined (a  *)
(* TypeError), list is the array returned, done the names it cached.       *)
(***************************************************************************)
\* s.includes(sub)
Includes(s, sub) == \E k \in 0..(Len(s) - Len(sub)) : Substr(s, k, Len(sub)) = sub

\* data.modifiers && data.modifiers.has('public'), line 2282
HasPublic(data) == "modifiers" \in DOMAIN data /\ "public" \in data.modifiers

commonMethods == {"__construct", "getName", "getId", "toString", "getValue"}

\* the bonus with a substring match ranked above a prefix match
MatchBonusSubstringFirst(lowerItem, lowerPrefix) ==
    IF lowerItem = lowerPrefix THEN 500
    ELSE IF Includes(lowerItem, lowerPrefix) /\ ~StartsWith(lowerItem, lowerPrefix) THEN 400
    ELSE IF StartsWith(lowerItem, lowerPrefix) THEN 300
    ELSE 0

\* lines 2268-2279
MatchBonus(lowerItem, lowerPrefix) ==
    IF lowerItem = lowerPrefix THEN 500
    ELSE IF StartsWith(lowerItem, lowerPrefix) THEN 300
    ELSE IF Includes(lowerItem, lowerPrefix) THEN 100
    ELSE 0

calculateScore(itemName, prefix, data) ==
    1000 + MatchBonus(ToLowerCase(itemName), ToLowerCase(prefix))
         + (IF HasPublic(data) THEN 50 ELSE 0)
         + (IF itemName \in commonMethods THEN 25 ELSE 0)

\* the collation order of the characters of names: punctuation, digits, letters
CollationOrder == "_\\$0123456789abcdefghijklmnopqrstuvwxyz"

\* the primary weight of a character: its letter, whatever its case
PrimaryWeight(c) ==
    IF \E k \in 1..Len(CollationOrder) : SubSeq(CollationOrder, k, k) = LowerChar(c)
    THEN CHOOSE k \in 1..Len(CollationOrder) : SubSeq(CollationOrder, k, k) = LowerChar(c)
    ELSE 0

\* the first difference in primary weights decides; a proper prefix comes first
RECURSIVE PrimaryCompare(_, _)
PrimaryCompare(a, b) ==
    IF a = "" /\ b = "" THEN 0
    ELSE IF a = "" THEN -1
    ELSE IF b = "" THEN 1
    ELSE IF PrimaryWeight(Head(a)) < PrimaryWeight(Head(b)) THEN -1
    ELSE IF PrimaryWeight(Head(a)) > PrimaryWeight(Head(b)) THEN 1
    ELSE PrimaryCompare(Tail(a), Tail(b))

\* with equal letters, the first difference in case decides: lower case first
RECURSIVE CaseCompare(_, _)
CaseCompare(a, b) ==
    IF a = "" \/ b = "" THEN 0
    ELSE IF Head(a) = Head(b) THEN CaseCompare(Tail(a), Tail(b))
    ELSE IF Head(b) \in UpperSet THEN -1
    ELSE 1

\* a.localeCompare(b) in the default locale, on the characters of names
localeCompare(a, b) ==
    IF PrimaryCompare(a, b) # 0 THEN PrimaryCompare(a, b) ELSE CaseCompare(a, b)

\* the comparator with the score ascending
CompareItemsAscending(a, b) ==
    IF a.score # b.score THEN a.score - b.score
    ELSE IF Len(a.caption) # Len(b.caption) THEN Len(a.caption) - Len(b.caption)
    ELSE localeCompare(a.caption, b.caption)

\* the comparator of sortCompletions, lines 2302-2315
CompareItems(a, b) ==
    IF a.score # b.score THEN b.score - a.score
    ELSE IF Len(a.caption) # Len(b.caption) THEN Len(a.caption) - Len(b.caption)
    ELSE localeCompare(a.caption, b.caption)

\* x inserted after every item of the sorted list that does not come after it
RECURSIVE SortInsert(_, _)
SortInsert(sorted, x) ==
    IF sorted = << >> THEN << x >>
    ELSE IF CompareItems(Head(sorted), x) <= 0
    THEN << Head(sorted) >> \o SortInsert(Tail(sorted), x)
    ELSE << x >> \o sorted

\* Array.prototype.sort with the comparator: a stable sort
RECURSIVE sortCompletions(_)
sortCompletions(completions) ==
    IF completions = << >> THEN << >>
    ELSE SortInsert(sortCompletions(SubSeq(completions, 1, Len(completions) - 1)),
                    completions[Len(completions)])

\* data.name || 'No documentation available'
NameOrDefault(data) ==
    IF "name" \in DOMAIN data /\ data.name # "" THEN data.name
    ELSE "No documentation available"

IndentAll(ps) == [n \in 1..Len(ps) |-> "  " \o ps[n]]

\* lines 2243-2252: the parameter and return tags
DocTagsText(tags) ==
    (IF MapHas(tags, "param")
     THEN "\n\nParameters:\n" \o Join(IndentAll(MapGet(tags, "param")), "\n") ELSE "")
    \o (IF MapHas(tags, "return") THEN "\n\nReturns: " \o MapGet(tags, "return")[1] ELSE "")

\* lines 2232-2240: summary and description
DocHeadText(doc) ==
    doc.summary
    \o (IF doc.description # ""
        THEN (IF doc.summary # "" THEN "\n\n" ELSE "") \o doc.description ELSE "")

DocTextOr(text, data) == IF text # "" THEN text ELSE NameOrDefault(data)

\* formatDocText for a data object whose docComment has its tags map
formatDocText(data) ==
    IF data.docComment = None THEN NameOrDefault(data)
    ELSE DocTextOr(DocHeadText(data.docComment[1]) \o DocTagsText(data.docComment[1].tags),
                   data)

\* formatDocText calls data.docComment.tags.has(): a TypeError without tags
DocTextRaises(data) ==
    data.docComment # None /\ "tags" \notin DOMAIN data.docComment[1]

\* lines 2178-2213: one parameter's signature text and snippet placeholder
ParamSignature(param) ==
    (IF param.type # None /\ param.type # Some("") THEN param.type[1] \o " " ELSE "")
    \o (IF param.isReference THEN "&" ELSE "")
    \o (IF param.isVariadic THEN "..." ELSE "")
    \o "$" \o param.name
    \o (IF param.defaultValue # None THEN " = " \o param.defaultValue[1] ELSE "")

ParamSnippet(param, index) == "${" \o ToString(index + 1) \o ":$" \o param.name \o "}"

formatParameters(parameters) ==
    [snippet |-> Join([n \in 1..Len(parameters) |-> ParamSnippet(parameters[n], n - 1)], ", "),
     signature |-> Join([n \in 1..Len(parameters) |-> ParamSignature(parameters[n])], ", ")]

\* lines 2139-2149
createMethodCompletion(methodName, methodData) ==
    [caption |-> methodName,
     value |-> methodName \o "(" \o formatParameters(methodData.parameters).snippet \o ")",
     meta |-> IF "static" \in methodData.modifiers THEN "static method" ELSE "method",
     score |-> 1000,
     docText |-> formatDocText(methodData) \o "\n\nSignature: " \o methodName \o "("
                 \o formatParameters(methodData.parameters).signature \o ")"]

\* lines 2157-2167
\* the function item scored by calculateScore against its own name
createFunctionCompletionScored(functionName, functionData) ==
    [caption |-> functionName,
     value |-> functionName \o "(" \o formatParameters(functionData.parameters).snippet \o ")",
     meta |-> "function",
     score |-> calculateScore(functionName, functionName, functionData),
     docText |-> formatDocText(functionData) \o "\n\nSignature: " \o functionName \o "("
                 \o formatParameters(functionData.parameters).signature \o ")"]

createFunctionCompletion(functionName, functionData) ==
    [caption |-> functionName,
     value |-> functionName \o "(" \o formatParameters(functionData.parameters).snippet \o ")",
     meta |-> "function",
     score |-> 900,
     docText |-> formatDocText(functionData) \o "\n\nSignature: " \o functionName \o "("
                 \o formatParameters(functionData.parameters).signature \o ")"]

\* a query's accumulator: completions pushed, names cached, no error so far
NoCompletions == [ok |-> TRUE, list |-> << >>, done |-> {}]

Pushed(acc, item) ==
    [acc EXCEPT !.list = Append(@, item), !.done = @ \cup {item.caption}]

Raised(acc) == [acc EXCEPT !.ok = FALSE]

\* the query returns sortCompletions(completions), unless it raised
Sorted(acc) == IF acc.ok THEN [acc EXCEPT !.list = sortCompletions(@)] ELSE acc

\* getClassCompletions, lines 1851-1871: the item of a matching class, with the
\* constructor's snippet and signature when the class declares one
ClassItemWith(classData, prefix, hasCtor, params) ==
    [caption |-> classData.name,
     value |-> classData.name,
     meta |-> classData.type,
     score |-> calculateScore(classData.name, prefix, classData),
     docText |-> formatDocText(classData)
                 \o (IF hasCtor THEN "\n\nConstructor: " \o params.signature ELSE "")
                 \o (IF classData.namespace # ""
                     THEN "\n\nNamespace: " \o classData.namespace ELSE ""),
     snippet |-> classData.name \o "(" \o (IF hasCtor THEN params.snippet ELSE "") \o ")"]

ClassItem(classData, prefix) ==
    ClassItemWith(classData, prefix, MapHas(classData.methods, "__construct"),
        formatParameters(IF MapHas(classData.methods, "__construct")
                         THEN MapGet(classData.methods, "__construct").parameters
                         ELSE << >>))

\* one iteration of the loop of lines 1838-1873
ClassStep(classData, prefix, acc) ==
    IF ~acc.ok THEN acc
    ELSE IF "name" \notin DOMAIN classData THEN Raised(acc)
    ELSE IF ~Includes(ToLowerCase(classData.name), ToLowerCase(prefix)) THEN acc
    ELSE IF classData.name \in acc.done THEN acc
    ELSE IF DocTextRaises(classData) \/ "methods" \notin DOMAIN classData THEN Raised(acc)
    ELSE Pushed(acc, ClassItem(classData, prefix))

RECURSIVE ClassLoop(_, _, _)
ClassLoop(cls, prefix, acc) ==
    IF cls = << >> THEN acc
    ELSE ClassLoop(Tail(cls), prefix, ClassStep(Head(cls).v, prefix, acc))

getClassCompletions(cls, prefix) == Sorted(ClassLoop(cls, prefix, NoCompletions))

\* the inner loop's iteration without its done.has() test
MethodStepNoDedupe(className, methodName, methodData, prefix, acc) ==
    IF ~(StartsWith(ToLowerCase(methodName), ToLowerCase(prefix))
         /\ "public" \in methodData.modifiers) THEN acc
    ELSE Pushed(acc, [createMethodCompletion(methodName, methodData)
                        EXCEPT !.docText = @ \o "\n\nClass: " \o className])

\* one iteration of the inner loop of lines 1930-1942
MethodStep(className, methodName, methodData, prefix, acc) ==
    IF ~acc.ok THEN acc
    ELSE IF "modifiers" \notin DOMAIN methodData THEN Raised(acc)
    ELSE IF ~(StartsWith(ToLowerCase(methodName), ToLowerCase(prefix))
              /\ "public" \in methodData.modifiers) THEN acc
    ELSE IF methodName \in acc.done THEN acc
    ELSE IF DocTextRaises(methodData) \/ "parameters" \notin DOMAIN methodData
    THEN Raised(acc)
    ELSE Pushed(acc, [createMethodCompletion(methodName, methodData)
                        EXCEPT !.docText = @ \o "\n\nClass: " \o className])

RECURSIVE MethodLoop(_, _, _, _)
MethodLoop(className, methods, prefix, acc) ==
    IF methods = << >> THEN acc
    ELSE MethodLoop(className, Tail(methods), prefix,
                    MethodStep(className, Head(methods).k, Head(methods).v, prefix, acc))

\* the fallback of lines 1927-1943: inferClassContext (2121-2131) returns null
RECURSIVE AllMethodsLoop(_, _, _)
AllMethodsLoop(cls, prefix, acc) ==
    IF cls = << >> THEN acc
    ELSE AllMethodsLoop(Tail(cls), prefix,
                        MethodLoop(Head(cls).k, Head(cls).v.methods, prefix, acc))

getMethodCompletions(cls, prefix) == Sorted(AllMethodsLoop(cls, prefix, NoCompletions))

\* lines 1954-2021 with inferClassContext returning null: no completion is added
getStaticMethodCompletions(cls, prefix) == Sorted(NoCompletions)

\* one iteration of the loop of lines 2035-2050
NamespaceStep(namespace, members, prefix, acc) ==
    IF ~Includes(ToLowerCase(namespace), ToLowerCase(prefix)) THEN acc
    ELSE IF namespace \in acc.done THEN acc
    ELSE Pushed(acc, [caption |-> namespace,
                      value |-> namespace,
                      meta |-> "namespace",
                      score |-> calculateScore(namespace, prefix, << >>),
                      docText |-> "Namespace containing " \o ToString(Cardinality(members))
                                  \o " classes"])

RECURSIVE NamespaceLoop(_, _, _)
NamespaceLoop(nss, prefix, acc) ==
    IF nss = << >> THEN acc
    ELSE NamespaceLoop(Tail(nss), prefix, NamespaceStep(Head(nss).k, Head(nss).v, prefix, acc))

\* one iteration of the loop of lines 2053-2068
UseClassStep(fullName, classData, prefix, acc) ==
    IF ~acc.ok THEN acc
    ELSE IF ~Includes(ToLowerCase(fullName), ToLowerCase(prefix)) THEN acc
    ELSE IF fullName \in acc.done THEN acc
    ELSE IF DocTextRaises(classData) THEN Raised(acc)
    ELSE Pushed(acc, [caption |-> fullName,
                      value |-> fullName,
                      meta |-> "use " \o classData.type,
                      score |-> calculateScore(fullName, prefix, classData),
                      docText |-> formatDocText(classData)])

RECURSIVE UseClassLoop(_, _, _)
UseClassLoop(cls, prefix, acc) ==
    IF cls = << >> THEN acc
    ELSE UseClassLoop(Tail(cls), prefix, UseClassStep(Head(cls).k, Head(cls).v, prefix, acc))

getNamespaceCompletions(nss, cls, prefix) ==
    Sorted(UseClassLoop(cls, prefix, NamespaceLoop(nss, prefix, NoCompletions)))

\* one iteration of the loop of lines 2101-2112
FunctionStep(functionData, prefix, acc) ==
    IF ~acc.ok THEN acc
    ELSE IF "name" \notin DOMAIN functionData THEN Raised(acc)
    ELSE IF ~StartsWith(ToLowerCase(functionData.name), ToLowerCase(prefix)) THEN acc
    ELSE IF functionData.name \in acc.done THEN acc
    ELSE IF DocTextRaises(functionData) \/ "parameters" \notin DOMAIN functionData
    THEN Raised(acc)
    ELSE Pushed(acc, createFunctionCompletion(functionData.name, functionData))

RECURSIVE FunctionLoop(_, _, _)
FunctionLoop(fns, prefix, acc) ==
    IF fns = << >> THEN acc
    ELSE FunctionLoop(Tail(fns), prefix, FunctionStep(Head(fns).v, prefix, acc))

getFunctionCompletions(fns, prefix) == Sorted(FunctionLoop(fns, prefix, NoCompletions))

\* lines 2083-2086: the function query runs only when the class query returned
DefaultJoined(c, fns, prefix) ==
    IF ~c.ok THEN c
    ELSE [getFunctionCompletions(fns, prefix) EXCEPT !.list = c.list \o @]

getDefaultCompletions(cls, fns, prefix) ==
    DefaultJoined(getClassCompletions(cls, prefix), fns, prefix)

(***************************************************************************)
(* The indexer with a completion query observed: at any point of the       *)
(* indexer's life one query runs on the symbol table as it is.             *)
(***************************************************************************)
QueryKinds == {"class", "namespace", "method", "static", "function", "default"}

Prefixes == {"", "get", "o", "zz"}

\* the query of the given kind on the indexer's maps
RunQuery(kind, prefix) ==
    IF kind = "class" THEN getClassCompletions(classes, prefix)
    ELSE IF kind = "namespace" THEN getNamespaceCompletions(namespaces, classes, prefix)
    ELSE IF kind = "method" THEN getMethodCompletions(classes, prefix)
    ELSE IF kind = "static" THEN getStaticMethodCompletions(classes, prefix)
    ELSE IF kind = "function" THEN getFunctionCompletions(functions, prefix)
    ELSE getDefaultCompletions(classes, functions, prefix)

\* /kw\s+(\w+)(\\\w+)*/.exec(line) finds a match: the keyword anywhere in the
\* line, one or more white space characters, then a word character
MatchesKeyword(line, kw) ==
    \E k \in 0..Len(line) :
        /\ Substr(line, k, Len(kw)) = kw
        /\ \E n \in 1..Len(line) :
             /\ \A j \in 0..(n - 1) : IsSpace(CharAt(line, k + Len(kw) + j))
             /\ IsWordChar(CharAt(line, k + Len(kw) + n))

\* /op(\w+)/.exec(line) finds a match, for the two-character operator op
MatchesOperator(line, op) ==
    \E k \in 0..Len(line) :
        /\ Substr(line, k, Len(op)) = op
        /\ IsWordChar(CharAt(line, k + Len(op)))

\* the branch of lines 622-637 tested with `::` before `->`
ContextOfStaticFirst(line) ==
    IF MatchesKeyword(line, "new") THEN "class"
    ELSE IF MatchesKeyword(line, "use") THEN "namespace"
    ELSE IF MatchesOperator(line, "::") THEN "static"
    ELSE IF MatchesOperator(line, "->") THEN "method"
    ELSE "default"

\* the branch of lines 622-637 the line takes
ContextOf(line) ==
    IF MatchesKeyword(line, "new") THEN "class"
    ELSE IF MatchesKeyword(line, "use") THEN "namespace"
    ELSE IF MatchesOperator(line, "->") THEN "method"
    ELSE IF MatchesOperator(line, "::") THEN "static"
    ELSE "default"

\* the plugin's getCompletions(line, prefix, pos); the indexer exists from
\* init() on, before the completer is registered (53-56)
getCompletions(line, prefix) == RunQuery(ContextOf(line), prefix)

\* a query that empties the maps where the source clears the seen set
AnsweredClearsIndex(kind, prefix, q) ==
    /\ queryOut' = Some([kind |-> kind, prefix |-> prefix, ok |-> q.ok, list |-> q.list])
    /\ done' = {}
    /\ classes' = << >> /\ functions' = << >> /\ namespaces' = << >> /\ fileIndex' = << >>

\* what the query q leaves behind: the list it returned and this.done; it
\* assigns to no map of the indexer
Answered(kind, prefix, q) ==
    /\ queryOut' = Some([kind |-> kind, prefix |-> prefix, ok |-> q.ok, list |-> q.list])
    /\ done' = q.done
    /\ UNCHANGED tableVars

Query(kind, prefix) ==
    /\ queryOut = None
    /\ Answered(kind, prefix, RunQuery(kind, prefix))
    /\ UNCHANGED <<lexVars, parserVars, progressVars, runs, nRuns, envVars,
                   finalTable, parseRun, resolveRun>>

\* the lines the editor hands to the completer
Lines ==
    { "$x = new Foo", "use Foo\\Bar", "$x->met", "Foo::CON", "$y = strlen",
      "C::d($a->b)", "use A; new B", "new A; $a->b", "renew  it", "new ", "" }

\* the completer called on a line of the editor: lines 584-601 and 613-638
Complete(line, prefix) ==
    /\ queryOut = None
    /\ LET q == getCompletions(line, prefix)
       IN /\ queryOut' = Some([kind |-> ContextOf(line), line |-> line, prefix |-> prefix,
                               ok |-> q.ok, list |-> q.list])
          /\ done' = q.done
    /\ UNCHANGED <<lexVars, tableVars, parserVars, progressVars, runs, nRuns, envVars,
                   finalTable, parseRun, resolveRun>>

MaxQueryRuns == 1

\* a step of the indexing run, while no query has been observed
IndexerStep == queryOut = None /\ Next /\ nRuns' <= MaxQueryRuns

NextQuery ==
    \/ IndexerStep
    \/ \E kind \in QueryKinds : \E prefix \in Prefixes : Query(kind, prefix)
    \/ \E line \in Lines : \E prefix \in Prefixes : Complete(line, prefix)

SpecQuery == Init /\ [][NextQuery]_vars

(***************************************************************************)
(* Properties of the completion queries.                                   *)
(***************************************************************************)
Captions(list) == [n \in 1..Len(list) |-> list[n].caption]

Scores(list) == [n \in 1..Len(list) |-> list[n].score]

MethodNames(cls) == UNION { MapKeys(cls[n].v.methods) : n \in 1..Len(cls) }

\* every name a query can offer: class names short and full, namespaces,
\* method names and function names short and full
IndexedNames ==
    MapKeys(classes) \cup { classes[n].v.name : n \in 1..Len(classes) }
        \cup MapKeys(namespaces) \cup MethodNames(classes)
        \cup MapKeys(functions) \cup { functions[n].v.name : n \in 1..Len(functions) }

NoNameMatches(prefix) ==
    \A name \in IndexedNames : ~Includes(ToLowerCase(name), ToLowerCase(prefix))

\* C16: whatever state the indexer is in (never indexed, in the middle of a
\* run, after a run, after a clear), a completion query of any kind raises no
\* error and returns a list, and the list is empty when the symbol table is
\* empty or no indexed name contains the prefix.
C16_QueriesNeverFail ==
    queryOut # None
    => /\ queryOut[1].ok
       /\ DOMAIN queryOut[1].list = 1..Len(queryOut[1].list)
       /\ TableEmpty => queryOut[1].list = << >>
       /\ NoNameMatches(queryOut[1].prefix) => queryOut[1].list = << >>

\* a default query with the empty prefix ran while a run had parsed one file
\* of its batch and was waiting for the other: it returned a non-empty list
C16_Witness ==
    /\ queryOut # None
    /\ queryOut[1].kind = "default" /\ queryOut[1].prefix = ""
    /\ queryOut[1].ok /\ Len(queryOut[1].list) > 0
    /\ \E r \in RunIds :
         runs[r].pc = "reading" /\ runs[r].pending # {} /\ runs[r].log # << >>

IsGetCandidate(caption) == caption \in {"get", "getX", "xget"}

\* C19: a class query for the prefix `get` over classes named get, getX and
\* xget lists them in the order get, getX, xget; and in every class query's
\* list, of two adjacent items with equal score the first has the shorter
\* caption or, with equal length, the caption that collates first.
C19_ScoringOrder ==
    (queryOut # None /\ queryOut[1].kind = "class")
    => /\ (/\ queryOut[1].prefix = "get"
           /\ {"get", "getX", "xget"} \subseteq MapKeys(classes))
          => SelectSeq(Captions(queryOut[1].list), IsGetCandidate) = << "get", "getX", "xget" >>
       /\ \A n \in 1..(Len(queryOut[1].list) - 1) :
            queryOut[1].list[n].score = queryOut[1].list[n + 1].score
            => \/ Len(queryOut[1].list[n].caption) < Len(queryOut[1].list[n + 1].caption)
               \/ /\ Len(queryOut[1].list[n].caption) = Len(queryOut[1].list[n + 1].caption)
                  /\ localeCompare(queryOut[1].list[n].caption,
                                   queryOut[1].list[n + 1].caption) < 0

\* the class query for `get` over the names tree: exact match, the two prefix
\* matches in collation order, the substring match
C19_Witness ==
    /\ queryOut # None
    /\ queryOut[1].kind = "class" /\ queryOut[1].prefix = "get"
    /\ Captions(queryOut[1].list) = << "get", "getA", "getX", "xget" >>
    /\ Scores(queryOut[1].list) = << 1500, 1300, 1300, 1100 >>

\* a does not come after b: higher score, or equal score and shorter caption,
\* or equal score and length and a caption that does not collate after b's
InOrder(a, b) ==
    \/ a.score > b.score
    \/ /\ a.score = b.score
       /\ \/ Len(a.caption) < Len(b.caption)
          \/ /\ Len(a.caption) = Len(b.caption)
             /\ localeCompare(a.caption, b.caption) <= 0

\* C20: in the list a class, namespace, method, static-member or function
\* query returns, no item comes after its successor in the order: score
\* descending, then caption length ascending, then caption ascending.
C20_ListsTotallyOrdered ==
    (queryOut # None /\ queryOut[1].kind \in {"class", "namespace", "method", "static", "function"})
    => \A n \in 1..(Len(queryOut[1].list) - 1) :
         InOrder(queryOut[1].list[n], queryOut[1].list[n + 1])

\* the namespace query for `get` over the names tree: the namespace Get and the
\* class get match exactly, getA and getX as a prefix, xget as a substring
C20_Witness ==
    /\ queryOut # None
    /\ queryOut[1].kind = "namespace" /\ queryOut[1].prefix = "get"
    /\ Scores(queryOut[1].list) = << 1500, 1500, 1300, 1300, 1100 >>
    /\ { queryOut[1].list[n].caption : n \in 1..2 } = {"get", "Get"}
    /\ SubSeq(Captions(queryOut[1].list), 3, 5) = << "getA", "getX", "xget" >>

\* the classes that hold a public method of this name
ClassesWithPublicMethod(name) ==
    { classes[n].k : n \in 1..Len(classes) } \cap
    { k \in MapKeys(classes) :
        /\ MapHas(MapGet(classes, k).methods, name)
        /\ "public" \in MapGet(MapGet(classes, k).methods, name).modifiers }

ItemsCaptioned(list, caption) == { n \in 1..Len(list) : list[n].caption = caption }

\* C21: a method query with no class context returns exactly one item for each
\* public method name that starts with the prefix, however many classes hold a
\* method of that name.
C21_MethodFallbackDeduplicates ==
    (queryOut # None /\ queryOut[1].kind = "method")
    => \A name \in MethodNames(classes) :
         (/\ ClassesWithPublicMethod(name) # {}
          /\ StartsWith(ToLowerCase(name), ToLowerCase(queryOut[1].prefix)))
         => Cardinality(ItemsCaptioned(queryOut[1].list, name)) = 1

\* the chain tree is indexed: Base and Child each declare a public foo, Grand
\* inherits one, and the method query for the empty prefix lists foo once
C21_Witness ==
    /\ queryOut # None
    /\ queryOut[1].kind = "method" /\ queryOut[1].prefix = ""
    /\ ClassesWithPublicMethod("foo") = {"App\\Base", "App\\Child", "App\\Grand"}
    /\ ~MapGet(MapGet(classes, "App\\Base").methods, "foo").inherited
    /\ ~MapGet(MapGet(classes, "App\\Child").methods, "foo").inherited
    /\ Captions(queryOut[1].list) = << "foo", "own" >>

NoDuplicateCaptions(list) ==
    \A n \in 1..Len(list) : \A m \in 1..Len(list) :
        list[n].caption = list[m].caption => n = m

\* C22: the list a query of any kind returns holds no two items with the same
\* caption.
C22_NoDuplicateCaptions ==
    queryOut # None => NoDuplicateCaptions(queryOut[1].list)

(***************************************************************************)
(* Properties of the progress callback.                                    *)
(***************************************************************************)
CeilDiv(n, d) == (n + d - 1) \div d

\* the k-th call the claim expects in a run over n files
ExpectedProgress(k, n) == << Min(batchSize * k, n), n >>

\* batches of the run r that have fully settled
BatchesSettled(r) ==
    IF runs[r].pc = "reading" THEN runs[r].i \div batchSize
    ELSE IF runs[r].pc = "yield" THEN runs[r].i \div batchSize + 1
    ELSE IF Returned(r) THEN CeilDiv(Len(runs[r].files), batchSize)
    ELSE 0

\* C24: in a run that no other call of indexPhpFiles overlaps and that started
\* with a callback set, the callback has been called once per settled batch,
\* the k-th time with (min(10k, N), N); a run that returned has called it
\* ceil(N/10) times, the last time with processedCount = totalCount.
C24_ProgressPerBatch ==
    \A r \in RunIds :
        (runs[r].watched /\ ~runs[r].overlap /\ runs[r].pc # "finding")
        => LET n == Len(runs[r].files)
               calls == runs[r].progress
           IN /\ Len(calls) = BatchesSettled(r)
              /\ \A k \in 1..Len(calls) : calls[k] = ExpectedProgress(k, n)
              /\ (Returned(r) /\ n > 0) => calls[Len(calls)] = << n, n >>

\* a watched run over twelve files has returned after two calls, (10, 12) and
\* (12, 12), one read of its second batch having failed
C24_Witness ==
    \E r \in RunIds :
        /\ runs[r].watched /\ ~runs[r].overlap /\ runs[r].pc = "done"
        /\ Len(runs[r].files) = 12
        /\ runs[r].failed = {"/pm/f12.php"}
        /\ runs[r].progress = << <<10, 12>>, <<12, 12>> >>

\* the completer was called on a line
Completed == queryOut # None /\ "line" \in DOMAIN queryOut[1]

\* the query the claim routes each line to
ExpectedContext ==
    [line \in Lines |->
        CASE line \in {"$x = new Foo", "use A; new B", "new A; $a->b", "renew  it"} -> "class"
          [] line = "use Foo\\Bar" -> "namespace"
          [] line \in {"$x->met", "C::d($a->b)"} -> "method"
          [] line = "Foo::CON" -> "static"
          [] OTHER -> "default"]

\* C23: the completer answers a line with the query its first matching pattern
\* names, in the order new, use, ->, ::, and with the default query when no
\* pattern matches; the answer is that query's list for the prefix.
C23_ContextByPriority ==
    Completed
    => LET kind == ExpectedContext[queryOut[1].line]
       IN /\ queryOut[1].kind = kind
          /\ queryOut[1].list = RunQuery(kind, queryOut[1].prefix).list

\* on the indexed chain tree a line holding `::` before `->` was answered with
\* the method completions, which differ from the static ones
C23_Witness ==
    /\ Completed
    /\ queryOut[1].line = "C::d($a->b)" /\ queryOut[1].prefix = ""
    /\ Captions(queryOut[1].list) = << "foo", "own" >>
    /\ getStaticMethodCompletions(classes, "").list # queryOut[1].list

(***************************************************************************)
(* Properties of the class parser.                                         *)
(***************************************************************************)
ParsedAll(src) == parseRun.pc = "done" /\ parseRun.src = src

\* C25: the header `X extends A, B {` records the extends list << A, B >>.
C25_ExtendsListComplete ==
    ParsedAll("interface X extends A, B {}")
    => /\ MapHas(parseRun.st.classes, "X")
       /\ MapGet(parseRun.st.classes, "X").extends = << "A", "B" >>

\* the sources with balanced braces whose class A declares m and n and whose
\* function g follows the class
BalancedExamples ==
    { "class A { function m(){ if ($a) { return 1; } } function n(){} } function g(){}",
      "class A { function m(){ $f = function(){}; } function n(){} } function g(){}",
      "class A { function m(){ static $n; } function n(){} } function g(){}",
      "class A { public function m(){} function n(){} } function g(){}" }

\* C26: for a source with balanced braces every named function between the
\* braces of the class is one of the class's methods and every named function
\* after the class's closing brace is a global function.
C26_BodyEndsAtMatchingBrace ==
    (parseRun.pc = "done" /\ parseRun.src \in BalancedExamples)
    => /\ MapHas(parseRun.st.classes, "A")
       /\ MapKeys(MapGet(parseRun.st.classes, "A").methods) = {"m", "n"}
       /\ MapKeys(parseRun.st.functions) = {"g"}

(***************************************************************************)
(* Properties of the pending doc comment.                                  *)
(***************************************************************************)
MemberDocs(cname, c, field, kind) ==
    { << kind, cname, m, MapGet(c[field], m).line, MapGet(c[field], m).docComment >> :
        m \in MapKeys(c[field]) }

\* the declarations a parser state holds, each with its line and doc comment
DeclDocs(st) ==
    { << "class", "", k, MapGet(st.classes, k).line, MapGet(st.classes, k).docComment >> :
        k \in MapKeys(st.classes) }
    \cup { << "function", "", k, MapGet(st.functions, k).line,
              MapGet(st.functions, k).docComment >> : k \in MapKeys(st.functions) }
    \cup UNION { MemberDocs(k, MapGet(st.classes, k), "methods", "method")
                 \cup MemberDocs(k, MapGet(st.classes, k), "properties", "property")
                 \cup MemberDocs(k, MapGet(st.classes, k), "constants", "constant") :
                 k \in MapKeys(st.classes) }

DocOf(decl) == decl[5]

\* one loop iteration from parser state st at token tk to parser state st2
DocStepOk(st, tk, st2) ==
    LET new == DeclDocs(st2) \ DeclDocs(st)
    IN /\ new # {} => /\ \A d \in new : DocOf(d) = st.lastDocComment
                      /\ st2.lastDocComment = None
       /\ st2.lastDocComment \notin {st.lastDocComment, None} => tk.type = "T_DOC_COMMENT"

\* C30: the declarations an iteration registers carry the doc comment pending
\* when the iteration began (none when none was pending), the pending comment
\* is cleared by that iteration, and only a doc-comment token sets a new one.
C30_DocCommentAttachedOnce ==
    [][ (InLoop(parseRun) /\ parseRun.i < Len(parseRun.tokens))
        => DocStepOk(parseRun.st, T(parseRun.tokens, parseRun.i), parseRun'.st) ]_vars

DocText(d) == IF d = None THEN "" ELSE d[1].summary

\* a file was parsed in which the class, one of two methods and one of two
\* property statements are preceded by a doc comment
C30_Witness ==
    /\ parseRun.pc = "done"
    /\ MapHas(parseRun.st.classes, "A")
    /\ LET A == MapGet(parseRun.st.classes, "A")
       IN /\ DocText(A.docComment) = "a"
          /\ MapKeys(A.methods) = {"m", "n"}
          /\ DocText(MapGet(A.methods, "m").docComment) = "m"
          /\ MapGet(A.methods, "n").docComment = None
          /\ MapKeys(A.properties) = {"p", "q", "r"}
          /\ DocText(MapGet(A.properties, "p").docComment) = "p"
          /\ DocText(MapGet(A.properties, "q").docComment) = "p"
          /\ MapGet(A.properties, "r").docComment = None
    /\ MapKeys(parseRun.st.functions) = {"g"}
    /\ MapGet(parseRun.st.functions, "g").docComment = None

(***************************************************************************)
(* resolveClassName observed on its own: the index holds some of three     *)
(* library files and the file of the class that asks.                      *)
(***************************************************************************)
LibrarySources ==
    << Entry("/pm/g.php", "class Base{}"),
       Entry("/pm/app.php", "namespace App;class Base{}"),
       Entry("/pm/lib.php", "namespace Lib;class Thing{}") >>

\* the file of the asking class C: with or without a namespace and aliases
ContextSources ==
    { "namespace App;use Lib\\Thing as Base;use Lib\\Thing as T;class C{}",
      "namespace App;class C{}",
      "use Lib\\Thing as Base;use Lib\\Thing;class C{}",
      "namespace App;use Lib\\Gone as Base;class C{}" }

ContextPath == "/pm/c.php"

ResolveNames == {"Base", "T", "Thing", "Lib\\Thing", "App\\Base", "Nope"}

\* the indexer after processPhpFile on each source in turn
RECURSIVE IndexSources(_, _)
IndexSources(ix, srcs) ==
    IF Len(srcs) = 0 THEN ix
    ELSE IndexSources(processFileContent(ix, Head(srcs).k, Head(srcs).v), Tail(srcs))

LibraryPick(picked) == SelectSeq(LibrarySources, LAMBDA e : e.k \in picked)

\* the class C of the context file, as the index holds it
AskingClass(ix) ==
    IF MapHas(ix.classes, "App\\C") THEN MapGet(ix.classes, "App\\C")
    ELSE MapGet(ix.classes, "C")

ResolveSetup(ix, name) ==
    [pc |-> "start", cls |-> ix.classes, fidx |-> ix.fileIndex, name |-> name,
     context |-> AskingClass(ix)]

InitResolve ==
    /\ lexInput = "" /\ lexContent = "" /\ lexPos = 0 /\ lexLine = 1 /\ lexColumn = 1
    /\ lexTokens = << >> /\ lexOut = "" /\ lexPc = "done"
    /\ classes = << >> /\ functions = << >> /\ namespaces = << >> /\ fileIndex = << >>
    /\ currentFile = None /\ currentNamespace = "" /\ currentClass = None
    /\ lastDocComment = None
    /\ totalFiles = 0 /\ processedFiles = 0 /\ onProgress = FALSE
    /\ runs = [r \in RunIds |-> IdleRun]
    /\ nRuns = 0 /\ nClears = 0 /\ nIoFailures = 0
    /\ fsId = 1
    /\ finalTable = [r \in RunIds |-> None]
    /\ done = {} /\ parseRun = IdleParse /\ queryOut = None
    /\ \E picked \in SUBSET { LibrarySources[n].k : n \in 1..Len(LibrarySources) } :
       \E src \in ContextSources : \E name \in ResolveNames :
         resolveRun = ResolveSetup(
             IndexSources(EmptyIndexer,
                          Append(LibraryPick(picked), Entry(ContextPath, src))),
             name)

\* the call resolveClassName(name, context) on the index
ResolveCall ==
    /\ resolveRun.pc = "start"
    /\ resolveRun' = [pc |-> "done", cls |-> resolveRun.cls, fidx |-> resolveRun.fidx,
                      name |-> resolveRun.name, context |-> resolveRun.context,
                      out |-> resolveClassName(resolveRun.cls, resolveRun.fidx,
                                               resolveRun.name, resolveRun.context)]
    /\ UNCHANGED <<lexVars, tableVars, parserVars, progressVars, runs, nRuns, envVars,
                   finalTable, done, parseRun, queryOut>>

NextResolve == ResolveCall

SpecResolve == InitResolve /\ [][NextResolve]_vars

(***************************************************************************)
(* Properties of resolveClassName.                                         *)
(***************************************************************************)
\* the use-alias map of the asking class's file
AliasesOf(rr) ==
    IF MapHas(rr.fidx, rr.context.file) THEN MapGet(rr.fidx, rr.context.file).uses
    ELSE << >>

\* the three candidate keys in the order the claim gives, absent ones left out
Candidates(rr) ==
    << rr.name >>
    \o (IF rr.context.namespace # ""
        THEN << rr.context.namespace \o "\\" \o rr.name >> ELSE << >>)
    \o (IF MapHas(AliasesOf(rr), rr.name) THEN << MapGet(AliasesOf(rr), rr.name) >>
        ELSE << >>)

Hits(rr) == { n \in 1..Len(Candidates(rr)) : MapHas(rr.cls, Candidates(rr)[n]) }

\* C29: resolveClassName returns the class under the first of the keys `name`,
\* `namespace\name`, alias target of `name` that the class map holds, and no
\* class when it holds none of them.
C29_FirstHitWins ==
    resolveRun.pc = "done"
    => IF Hits(resolveRun) = {} THEN resolveRun.out = None
       ELSE resolveRun.out =
              Some(Candidates(resolveRun)[CHOOSE n \in Hits(resolveRun) :
                                             \A m \in Hits(resolveRun) : n <= m])

\* Base asked from namespace App with the alias Base -> Lib\Thing, while the
\* class map holds Base, App\Base and Lib\Thing: the exact key is returned
C29_Witness ==
    /\ resolveRun.pc = "done"
    /\ resolveRun.name = "Base"
    /\ resolveRun.context.namespace = "App"
    /\ MapKeys(resolveRun.cls) = {"Base", "App\\Base", "Lib\\Thing", "App\\C"}
    /\ MapGet(AliasesOf(resolveRun), "Base") = "Lib\\Thing"
    /\ Hits(resolveRun) = {1, 2, 3}
    /\ resolveRun.out = Some("Base")

(***************************************************************************)
(* Properties of the resolver pass.                                        *)
(***************************************************************************)
AllResolved(cls) == \A n \in 1..Len(cls) : cls[n].v.inheritanceResolved

\* C27: the resolver pass of a run that no other run or clear disturbs enters
\* no class whose resolution is still in progress and leaves every class
\* resolved: the run returns true with every class of the table marked.
C27_ResolvedExactlyOnce ==
    \A r \in RunIds :
        (runs[r].postProcessed /\ ~runs[r].overlap /\ ~runs[r].cleared)
        => /\ runs[r].pc = "done"
           /\ AllResolved(finalTable[r][1].classes)

\* a member as the claim compares it: its name, modifiers and declaring file
MemberFacts(map) ==
    { << map[n].k, map[n].v.modifiers, map[n].v.file >> : n \in 1..Len(map) }

FactName(t) == t[1]

FactVisible(t) == "public" \in t[2] \/ "protected" \in t[2]

\* the members of the class `key` and of its ancestors in the table `cls` that
\* no nearer declaration shadows; `depth` bounds the chain
RECURSIVE VisibleMembers(_, _, _, _, _)
VisibleFrom(cls, fidx, key, field, depth, own, parent) ==
    IF parent = None \/ depth = 0 THEN own
    ELSE own \cup { t \in VisibleMembers(cls, fidx, parent[1], field, depth - 1) :
                      /\ FactVisible(t)
                      /\ \A o \in own : FactName(o) # FactName(t) }

VisibleMembers(cls, fidx, key, field, depth) ==
    LET c == MapGet(cls, key)
    IN VisibleFrom(cls, fidx, key, field, depth,
                   MemberFacts(MapGet(OwnClasses(c.file), key)[field]),
                   IF Len(c.extends) = 0 THEN None
                   ELSE resolveClassName(cls, fidx, c.extends[1], c))

HasAllVisible(cls, fidx, key) ==
    /\ MemberFacts(MapGet(cls, key).methods)
         = VisibleMembers(cls, fidx, key, "methods", Len(cls))
    /\ MemberFacts(MapGet(cls, key).properties)
         = VisibleMembers(cls, fidx, key, "properties", Len(cls))

\* C28: after the resolver pass of an undisturbed run over an acyclic class
\* graph, the methods and properties of every class are its own members and
\* the public or protected members of its ancestors that no nearer declaration
\* shadows, whatever the order of the class map.
C28_TransitiveClosure ==
    \A r \in RunIds :
        (fsId # 3 /\ Undisturbed(r) /\ runs[r].pc = "done" /\ finalTable[r][1].classes = classes)
        => \A key \in MapKeys(classes) : HasAllVisible(classes, fileIndex, key)

\* the chain tree with the class map in the order Grand, Child, Base: Grand
\* holds Base's own() and $r through Child, Child's foo() and $p, not $q or $c
C28_Witness ==
    /\ fsId = 2
    /\ \E r \in RunIds : /\ Undisturbed(r) /\ runs[r].pc = "done"
                         /\ finalTable[r][1].classes = classes
    /\ [n \in 1..Len(classes) |-> classes[n].k] = << "App\\Grand", "App\\Child", "App\\Base" >>
    /\ MemberFacts(MapGet(classes, "App\\Grand").methods)
         = { << "foo", {"public"}, "/pm/src/child.php" >>,
             << "own", {"public"}, "/pm/base.php" >> }
    /\ MemberFacts(MapGet(classes, "App\\Grand").properties)
         = { << "p", {"public"}, "/pm/src/child.php" >>,
             << "r", {"protected"}, "/pm/base.php" >> }

(***************************************************************************)
(* Properties of the parser state shared by the file units.                *)
(***************************************************************************)
\* C31: the doc comment of every indexed class and function is the one the
\* parse of its own file attaches to it: none comes from a doc-comment token of
\* another file, of an earlier run or from before a clear.
C31_DocCommentFromOwnFile ==
    /\ \A n \in 1..Len(functions) :
         LET own == OwnFunctions(functions[n].v.file)
         IN MapHas(own, functions[n].k)
            => functions[n].v.docComment = MapGet(own, functions[n].k).docComment
    /\ \A n \in 1..Len(classes) :
         LET own == OwnClasses(classes[n].v.file)
         IN MapHas(own, classes[n].k)
            => classes[n].v.docComment = MapGet(own, classes[n].k).docComment

\* the name of the namespace statement a file's text begins with, "" when it
\* begins with none
DeclaredNamespace(content) ==
    IF StartsWith(content, "namespace ")
    THEN LET rest == Substr(content, Len("namespace "), Len(content))
         IN Substr(rest, 0, CHOOSE k \in 0..Len(rest) :
                               /\ k = Len(rest) \/ CharAt(rest, k) = ";"
                               /\ \A j \in 0..(k - 1) : CharAt(rest, j) # ";")
    ELSE ""

Qualified(ns, name) == IF ns = "" THEN name ELSE ns \o "\\" \o name

\* the text of the file holds the declaration and its namespace statement
\* gives the key
DeclaredIn(file, keyword, name, key) ==
    /\ MapHas(Tree.files, file)
    /\ Includes(MapGet(Tree.files, file), keyword \o " " \o name)
    /\ key = Qualified(DeclaredNamespace(MapGet(Tree.files, file)), name)

\* C32: whatever the order in which the reads of a batch complete, every class
\* and function records the file whose text declares it and is registered
\* under the namespace statement of that file.
C32_UnitsDoNotShareContext ==
    /\ \A n \in 1..Len(classes) :
         LET c == classes[n].v
         IN /\ DeclaredIn(c.file, "class", c.name, classes[n].k)
            /\ c.namespace = DeclaredNamespace(MapGet(Tree.files, c.file))
            /\ c.fullName = classes[n].k
    /\ \A n \in 1..Len(functions) :
         DeclaredIn(functions[n].v.file, "function", functions[n].v.name, functions[n].k)

\* a file with the namespace statement Get was parsed before a file with none
\* in the same batch: the classes of the second file are in no namespace
C32_Witness ==
    /\ fsId = 5
    /\ \E r \in RunIds : /\ runs[r].log = << "/pm/two/h.php", "/pm/one/g.php" >>
                         /\ ~runs[r].overlap /\ ~runs[r].cleared
    /\ MapKeys(classes) = {"xget", "getX", "get", "getA"}
    /\ MapKeys(functions) = {"Get\\getY", "Get\\get"}
    /\ MapGet(classes, "get").namespace = "" /\ MapGet(classes, "get").file = "/pm/one/g.php"
    /\ MapGet(functions, "Get\\get").file = "/pm/two/h.php"

(***************************************************************************)
(* Properties of the batches.                                              *)
(***************************************************************************)
SettledFiles(r) == LogSet(r) \cup runs[r].failed

FirstFiles(r, n) == { runs[r].files[k] : k \in 1..Min(n, Len(runs[r].files)) }

\* the units of run r in flight are at most batchSize files of the batch at i,
\* and every file of the batches before it has settled
BatchesInTurn(r) ==
    /\ Cardinality(runs[r].pending) <= batchSize
    /\ runs[r].pending \subseteq FirstFiles(r, runs[r].i + batchSize) \ FirstFiles(r, runs[r].i)
    /\ SettledFiles(r) \subseteq FirstFiles(r, runs[r].i + batchSize)
    /\ runs[r].pending # {} => FirstFiles(r, runs[r].i) \subseteq SettledFiles(r)

\* a step that issues reads of run r is the listing's end or the timer firing
IssuedAfterYield(r) ==
    ~(runs'[r].pending \subseteq runs[r].pending)
    => /\ runs[r].pc \in {"finding", "yield"}
       /\ runs[r].pending = {}

\* C33: a run never has more than 10 file units in flight, all of one batch,
\* and the reads of a batch are issued only when every unit of the batch before
\* has settled and the timer between the batches has fired.
C33_BatchesOfTen ==
    /\ [](\A r \in RunIds : BatchesInTurn(r))
    /\ [][\A r \in RunIds : IssuedAfterYield(r)]_vars

\* the second batch of a run over twelve files is in flight: the ten files of
\* the first batch have settled, the last two are being read
C33_Witness ==
    \E r \in RunIds :
        /\ runs[r].pc = "reading" /\ runs[r].i = batchSize
        /\ Len(runs[r].files) = 12
        /\ runs[r].pending = {"/pm/f11.php", "/pm/f12.php"}
        /\ Cardinality(SettledFiles(r)) = batchSize

(***************************************************************************)
(* Properties of the static member query.                                  *)
(***************************************************************************)
\* the public static properties of the indexed classes that start with prefix
PublicStaticProperties(prefix) ==
    UNION { { MapGet(classes, k).properties[n].k :
                n \in { m \in 1..Len(MapGet(classes, k).properties) :
                          /\ {"public", "static"}
                               \subseteq MapGet(classes, k).properties[m].v.modifiers
                          /\ StartsWith(ToLowerCase(MapGet(classes, k).properties[m].k),
                                        ToLowerCase(prefix)) } } :
            k \in MapKeys(classes) }

\* C34: with no class context the static member query lists, from all indexed
\* classes, the public static members whose name starts with the prefix.
C34_StaticFallback ==
    (queryOut # None /\ queryOut[1].kind = "static")
    => \A name \in PublicStaticProperties(queryOut[1].prefix) :
         ItemsCaptioned(queryOut[1].list, name) # {}

(***************************************************************************)
(* Properties of the scores.                                               *)
(***************************************************************************)
\* the item is scored by the rule for one of the indexed entries of `map`
\* whose name is the item's caption
ScoredByRule(item, prefix, map) ==
    \E n \in 1..Len(map) :
        /\ map[n].v.name = item.caption
        /\ item.score = calculateScore(item.caption, prefix, map[n].v)

AllMethods == UNION { { MapGet(classes, k).methods[n] :
                          n \in 1..Len(MapGet(classes, k).methods) } : k \in MapKeys(classes) }

\* C35: every item of a class, method or function query carries the score the
\* scoring rule gives for its name, the prefix and its modifiers.
C35_ItemsScoredByRule ==
    queryOut # None
    => \A n \in 1..Len(queryOut[1].list) :
         LET item == queryOut[1].list[n]
         IN /\ queryOut[1].kind = "class" => ScoredByRule(item, queryOut[1].prefix, classes)
            /\ queryOut[1].kind = "function"
                 => ScoredByRule(item, queryOut[1].prefix, functions)
            /\ queryOut[1].kind = "method"
                 => \E m \in AllMethods :
                      /\ m.k = item.caption
                      /\ item.score = calculateScore(item.caption, queryOut[1].prefix, m.v)

(***************************************************************************)
(* Properties of the default query.                                        *)
(***************************************************************************)
ItemsOfMeta(list, metas) == { n \in 1..Len(list) : list[n].meta \in metas }

\* C36: the list of the default query is the class query's list followed by
\* the function query's list, its scores never increase along the list, and
\* every class item scores more than every function item.
C36_DefaultClassesThenFunctions ==
    (queryOut # None /\ queryOut[1].kind = "default")
    => LET list == queryOut[1].list
           c == getClassCompletions(classes, queryOut[1].prefix).list
           f == getFunctionCompletions(functions, queryOut[1].prefix).list
       IN /\ list = c \o f
          /\ \A n \in 1..(Len(list) - 1) : list[n].score >= list[n + 1].score
          /\ \A n \in 1..Len(c) : \A m \in 1..Len(f) : c[n].score > f[m].score

\* the default query for the empty prefix on the index of the names tree: four
\* classes, then two functions
C36_Witness ==
    /\ queryOut # None
    /\ queryOut[1].kind = "default" /\ queryOut[1].prefix = ""
    /\ Captions(queryOut[1].list) = << "get", "getA", "getX", "xget", "get", "getY" >>
    /\ Scores(queryOut[1].list) = << 1300, 1300, 1300, 1300, 900, 900 >>

(***************************************************************************)
(* Frame of the queries.                                                   *)
(***************************************************************************)
\* C37: a completion query changes no entry of the class, function and
\* namespace maps or of the file records, the members of the classes included.
C37_QueriesReadOnly ==
    [][ (queryOut = None /\ queryOut' # None)
        => UNCHANGED <<classes, functions, namespaces, fileIndex>> ]_vars

\* a method query on the indexed chain tree returned items and filled the seen
\* set, and the maps still hold the three classes
C37_Witness ==
    /\ queryOut # None /\ queryOut[1].kind = "method"
    /\ queryOut[1].list # << >>
    /\ done = {"foo", "own"}
    /\ MapKeys(classes) = {"App\\Base", "App\\Child", "App\\Grand"}
    /\ Len(fileIndex) = 2

(***************************************************************************)
(* Frame of the resolver.                                                  *)
(***************************************************************************)
\* the map `after` is `before` with entries tagged inherited added at the end
OnlyInheritedAdded(before, after) ==
    /\ Len(after) >= Len(before)
    /\ SubSeq(after, 1, Len(before)) = before
    /\ \A n \in (Len(before) + 1)..Len(after) : after[n].v.inherited

\* the class `after` is the class `before` but for the resolved mark and for
\* inherited entries added to its methods and properties
ClassFrame(before, after) ==
    /\ [after EXCEPT !.methods = before.methods, !.properties = before.properties,
                     !.inheritanceResolved = before.inheritanceResolved] = before
    /\ OnlyInheritedAdded(before.methods, after.methods)
    /\ OnlyInheritedAdded(before.properties, after.properties)
    /\ before.inheritanceResolved => after = before

ResolverFrame(before, after) ==
    /\ [n \in 1..Len(after) |-> after[n].k] = [n \in 1..Len(before) |-> before[n].k]
    /\ \A n \in 1..Len(before) : ClassFrame(before[n].v, after[n].v)

\* C38: the resolver pass of a run keeps the keys of the class map, leaves
\* resolved classes as they are, and changes the others only by adding
\* entries tagged inherited to their methods and properties maps: own entries,
\* constants, extends and implements lists stay as they were.
C38_ResolverFrame ==
    [][ (\E r \in RunIds : ~runs[r].postProcessed /\ runs'[r].postProcessed)
        => ResolverFrame(classes, classes') ]_vars

\* after the pass on the chain tree Child holds its own foo() and $p untouched
\* and Base's own() tagged inherited
C38_Witness ==
    /\ fsId = 2
    /\ \E r \in RunIds : /\ runs[r].postProcessed /\ runs[r].pc = "done"
                         /\ ~runs[r].overlap /\ ~runs[r].cleared
                         /\ Len(runs[r].log) = 2
                         /\ finalTable[r][1].classes = classes
    /\ MapHas(classes, "App\\Child")
    /\ LET child == MapGet(classes, "App\\Child")
           own == MapGet(OwnClasses("/pm/src/child.php"), "App\\Child")
       IN /\ SubSeq(child.methods, 1, Len(own.methods)) = own.methods
          /\ SubSeq(child.properties, 1, Len(own.properties)) = own.properties
          /\ MapKeys(child.methods) \ MapKeys(own.methods) = {"own"}
          /\ MapGet(child.methods, "own").inherited
          /\ MapKeys(child.properties) \ MapKeys(own.properties) = {"r"}

(***************************************************************************)
(* Properties of the namespace map.                                        *)
(***************************************************************************)
NamespaceMembersOk(nss, cls) ==
    \A n \in 1..Len(nss) :
        \A fullName \in nss[n].v :
            /\ MapHas(cls, fullName)
            /\ MapGet(cls, fullName).namespace = nss[n].k
            /\ MapGet(cls, fullName).fullName = fullName
            /\ fullName = nss[n].k \o "\\" \o MapGet(cls, fullName).name

\* C39: in every state of a parse, every name in the member set of a
\* namespace is a key of the class map, and the class under it records that
\* namespace and the full name namespace \ short name.
C39_NamespaceMembersAreClasses ==
    "st" \in DOMAIN parseRun
    => NamespaceMembersOk(parseRun.st.namespaces, parseRun.st.classes)

RECURSIVE NewlinesIn(_)
NewlinesIn(s) ==
    IF s = "" THEN 0
    ELSE (IF Head(s) = "\n" THEN 1 ELSE 0) + NewlinesIn(Tail(s))

\* C40: every token is recorded with the line 1 + the number of newline
\* characters before its first character: each token a scan step appends,
\* which starts at the position the step began at, carries that line.
C40_TokenLineCountsNewlines ==
    [][\A k \in (Len(lexTokens) + 1)..Len(lexTokens') :
           lexTokens'[k].line = 1 + NewlinesIn(Substring(lexContent, 0, lexPos))]_vars

====
